---- MODULE Spec2Model ----
(***************************************************************************)
(* Reactive core of Vue 1.0.28: Dep, reactive properties, Watcher, the     *)
(* batcher queue and nextTick.  JavaScript is single threaded, so the      *)
(* state machine is one call stack: every frame is a loop or a callback    *)
(* whose position is part of the state, and a step runs the top frame      *)
(* up to its next call into user code.                                     *)
(***************************************************************************)
EXTENDS Integers, Sequences, FiniteSets, TLC

\* ---------------------------------------------------------------- bounds
\* Reactive properties hold the numbers 0..MaxVal.
MaxVal == 1
\* Operations a watcher callback performs before it returns.
MaxCbOps == 1
\* Operations (assignments, teardown calls) the scripts and callbacks perform in all.
MaxOps == 3
\* update() calls counted per watcher between two runs (saturating history).
MaxTrig == 2
\* Length of the observed array.
MaxLen == 3
\* Calls the scripts make on the observed array and on observe().
MaxArrOps == 2
\* Length of the array when it is first observed.
MaxInitLen == 2
\* Arguments of one push or unshift call.
MaxArgs == 2
\* Keys put into the Cache.
MaxKeys == 3
\* Limit of the Cache.
MaxLimit == 2
\* The containers of a value graph given to traverse().
MaxNodes == 3
MaxDirs == 2
MaxDestroy == 3

\* ------------------------------------------------------------- constants
Undefined == -1
Null == -2
NaN == -3
ConfigAsync == TRUE
MaxUpdateCount == 100

\* The objects: the array held by the reactive property arr, two plain objects.
ArrRef == 10
Obj1 == 11
Obj2 == 12
Objects == {ArrRef, Obj1, Obj2}

Props == {"flag", "a", "b"}
\* Every Dep: one per reactive property, one per Observer (keyed by ObDep).
Deps == Props \cup {"arr", "list", "o1", "o2", "x1", "x2"}
ObDep == [o \in Objects |-> CASE o = ArrRef -> "list" [] o = Obj1 -> "o1" [] o = Obj2 -> "o2"]
\* The plain objects have one key, x; XDep is the Dep of its defineReactive.
PlainObjects == {Obj1, Obj2}
XDep == [o \in PlainObjects |-> IF o = Obj1 THEN "x1" ELSE "x2"]
XOwner == [d \in {"x1", "x2"} |-> IF d = "x1" THEN Obj1 ELSE Obj2]
Values == 0 .. MaxVal
\* What the array holds: numbers and plain objects (and undefined in its holes).
Elems == Values \cup {Obj1, Obj2}
WatcherIds == {1, 2}
\* The contexts that observe() is given as owner; 0 is "no owner".
VmIds == {0, 1}
GetterKinds == {"cond", "guarded"}
\* The watcher behind the computed property c (makeComputedGetter).
LazyId == 1

VARIABLES
  val,        \* closure variable `val` of each reactive property
  subs,       \* Dep.subs of each property's Dep
  target,     \* Dep.target
  watchers,   \* the Watcher objects, by id
  vmWatchers, \* vm._watchers
  queue,      \* batcher: queue
  userQueue,  \* batcher: userQueue
  has,        \* batcher: has
  circular,   \* batcher: circular
  waiting,    \* batcher: waiting
  callbacks,  \* nextTick: callbacks
  pending,    \* nextTick: pending
  items,      \* the elements of the observed array
  obCount,    \* per object: the Observers constructed for it (__ob__ is the last)
  vms,        \* per object: Observer.vms
  shouldConvert, \* observer: shouldConvert
  cache,      \* a Cache object
  xs,         \* the property x of each plain object
  childOb,    \* per property of Props: the closure variable childOb is an Observer
  trav,       \* a call of traverse(): the value graph, the recursion, seenObjects
  dir,        \* a two-way directive: _locked
  inst,       \* the life cycle of an instance: compilation and destruction
  ret,        \* history: what the array call or observe() call of the last step returns
  call,       \* history: the array call or observe() call of the last step, <<name, arguments>>
  runs,       \* history: run() calls per watcher in the current flush
  ops,        \* history: operations performed by scripts and callbacks
  stack       \* the call stack, top first

vars == <<val, subs, target, watchers, vmWatchers, queue, userQueue, has,
          circular, waiting, callbacks, pending, items, obCount, vms, shouldConvert,
          cache, xs, childOb, trav, dir, inst, ret, call, runs, ops, stack>>

\* ------------------------------------------------------------ JS helpers
\* === on the model's values (numbers, NaN, undefined, null): NaN === NaN is false.
StrictEq(x, y) == x = y /\ x # NaN

Truthy(x) == x \notin {0, NaN, Undefined, Null}

\* isObject without the test of the type.
IsObjectNever(x) == FALSE

\* isObject
IsObject(x) == x \in Objects

\* indexOf (util): the last index holding obj, 0 when absent.
IndexOf(arr, obj) ==
  LET hits == {i \in 1 .. Len(arr) : arr[i] = obj}
  IN IF hits = {} THEN 0 ELSE CHOOSE i \in hits : \A j \in hits : j <= i

\* Array.prototype.$remove
Remove(arr, item) ==
  IF Len(arr) = 0 THEN arr
  ELSE LET index == IndexOf(arr, item)
       IN IF index > 0
          THEN SubSeq(arr, 1, index - 1) \o SubSeq(arr, index + 1, Len(arr))
          ELSE arr

\* toArray: a copy of the list.
ToArray(list) == [i \in 1 .. Len(list) |-> list[i]]

SeqToSet(s) == {s[i] : i \in 1 .. Len(s)}

\* F(x), with x evaluated once (a statement sequence: x, then F on its result).
Then(x, F(_)) == CHOOSE y \in {F(r) : r \in {x}} : TRUE

\* ------------------------------------------------ the watched expressions
\* Properties the getter reads, in order, on state v.
\*   cond:     function () { return this.flag ? this.a : this.b }
\*   guarded:  function () { if (this.flag) throw ...; return this.a }
\*   arr:      function () { return this.arr }
\*   sum:      function () { return this.c + this.b }, c a computed property
\*   bsum:     function () { return this.b + this.c }
\*   stopper:  function () { if (this.flag) { var x = this.a; unwatch(); return x }
\*                           return this.b }, unwatch() being teardown() of its watcher
\*   writer:   function () { this.b = this.a; return this.b }
\*   path:     function () { return this.a.x }
\*   prop:     the expression a of a directive
\*   filtered: the expression a | strict, with the filter
\*             strict: function (v) { if (v) throw new Error(); return v }
GetterReads(kind, v) ==
  CASE kind \in {"cond", "stopper"} ->
         IF Truthy(v["flag"]) THEN <<"flag", "a">> ELSE <<"flag", "b">>
    [] kind = "arr" -> <<"arr">>
    [] kind = "sum" -> <<"c", "b">>
    [] kind = "bsum" -> <<"b", "c">>
    [] kind = "writer" -> <<"a", "b">>
    [] kind = "path" -> IF v["a"] \in PlainObjects THEN <<"a", XDep[v["a"]]>> ELSE <<"a">>
    [] kind \in {"prop", "filtered"} -> <<"a">>
    [] kind = "guarded" -> IF Truthy(v["flag"]) THEN <<"flag">> ELSE <<"flag", "a">>

GetterThrows(kind, v) == kind = "guarded" /\ Truthy(v["flag"])

\* scope._applyFilters(value, null, this.filters, false) in get() throws.
FilterThrows(kind, v) == kind = "filtered" /\ Truthy(v["a"])

\* What get() has in `value` after the try/catch around the getter call.
GetterValue(kind, v) ==
  CASE kind \in {"cond", "stopper"} -> IF Truthy(v["flag"]) THEN v["a"] ELSE v["b"]
    [] kind = "writer" -> v["b"]
    [] kind = "path" -> Undefined
    [] kind \in {"prop", "filtered"} -> v["a"]
    [] kind = "arr" -> ArrRef
    [] kind = "guarded" -> IF GetterThrows(kind, v) THEN Undefined ELSE v["a"]

\* --------------------------------------------------------------- frames
Frame(k, w, d, snap, i, nv, ov, n) ==
  [k |-> k, w |-> w, d |-> d, snap |-> snap, i |-> i, nv |-> nv, ov |-> ov, n |-> n]

NotifyFrame(d, snap, nv, ov) == Frame("notify", 0, d, snap, 1, nv, ov, 0)
\* A callback is called with (nv, ov); n and snap remember, for the properties below,
\* how many update() calls led to this run and the deps the watcher had before it.
CbFrame(w, nv, ov, n, prev) == Frame("cb", w, "", prev, 0, nv, ov, n)
\* n of a notify frame: the number of the assignment that called notify();
\* n of a flush frame: the depth of the recursion of flushBatcherQueue.
FlushFrame(q) == Frame("flush", 0, q, <<>>, 1, 0, 0, 0)
\* run() of w waiting in get() for the setter its getter called; n and prev as
\* in the callback frame; i becomes 1 when the setter throws.
GetFrame(w, n, prev) == Frame("get", w, "", prev, 0, 0, 0, n)
TickFrame(copies) == Frame("tick", 0, "", copies, 1, 0, 0, 0)

\* The mutable heap as one record, threaded through the operators below.
Cur ==
  [val |-> val, subs |-> subs, target |-> target, ws |-> watchers,
   vmWatchers |-> vmWatchers, queue |-> queue, userQueue |-> userQueue,
   has |-> has, circular |-> circular, waiting |-> waiting,
   callbacks |-> callbacks, pending |-> pending, arr |-> items,
   obCount |-> obCount, vms |-> vms, shouldConvert |-> shouldConvert, cache |-> cache,
   xs |-> xs, childOb |-> childOb, trav |-> trav, dir |-> dir, inst |-> inst,
   ret |-> <<>>,
   call |-> <<>>, ops |-> ops, by |-> 0, push |-> <<>>, threw |-> FALSE]

Commit(st) ==
  /\ val' = st.val
  /\ subs' = st.subs
  /\ target' = st.target
  /\ watchers' = st.ws
  /\ vmWatchers' = st.vmWatchers
  /\ queue' = st.queue
  /\ userQueue' = st.userQueue
  /\ has' = st.has
  /\ circular' = st.circular
  /\ waiting' = st.waiting
  /\ callbacks' = st.callbacks
  /\ pending' = st.pending
  /\ items' = st.arr
  /\ obCount' = st.obCount
  /\ vms' = st.vms
  /\ shouldConvert' = st.shouldConvert
  /\ cache' = st.cache
  /\ xs' = st.xs
  /\ childOb' = st.childOb
  /\ trav' = st.trav
  /\ dir' = st.dir
  /\ inst' = st.inst
  /\ ret' = st.ret
  /\ call' = st.call

\* ------------------------------------------------------------------ Dep
AddSub(st, d, w) == [st EXCEPT !.subs[d] = Append(@, w)]

RemoveSub(st, d, w) == [st EXCEPT !.subs[d] = Remove(@, w)]

\* addDep that subscribes on the first evaluation only.
AddDepStatic(st, w, d) ==
  IF d \in st.ws[w].newDepIds THEN st
  ELSE LET st1 == [st EXCEPT !.ws[w].newDepIds = @ \cup {d},
                             !.ws[w].newDeps = Append(@, d)]
       IN IF st.ws[w].deps # <<>> THEN st1 ELSE AddSub(st1, d, w)

\* Watcher.prototype.addDep
AddDep(st, w, d) ==
  IF d \in st.ws[w].newDepIds THEN st
  ELSE LET st1 == [st EXCEPT !.ws[w].newDepIds = @ \cup {d},
                             !.ws[w].newDeps = Append(@, d)]
       IN IF d \in st.ws[w].depIds THEN st1 ELSE AddSub(st1, d, w)

\* Dep.prototype.depend
Depend(st, d) == AddDep(st, st.target, d)

\* reactiveGetter of arr: e && e.__ob__ && e.__ob__.dep.depend() for each element.
RECURSIVE DependElements(_, _)
DependElements(st, i) ==
  IF i > Len(st.arr) THEN st
  ELSE LET e == st.arr[i]
       IN DependElements(IF IsObject(e) /\ st.obCount[e] > 0
                         THEN Depend(st, ObDep[e]) ELSE st, i + 1)

\* reactiveGetter that leaves out the loop over the elements of an array.
DependChildOnly(st, p) ==
  IF st.childOb[p] THEN Depend(st, ObDep[st.val[p]]) ELSE st

\* reactiveGetter of p after dep.depend(): childOb.dep.depend() when the setter or
\* defineReactive got an Observer from observe(), and, for an array, the loop over
\* its elements.
DependChild(st, p) ==
  Then(IF st.childOb[p] THEN Depend(st, ObDep[st.val[p]]) ELSE st, LAMBDA st1 :
         IF st1.val[p] = ArrRef THEN DependElements(st1, 1) ELSE st1)

\* reactiveGetter: the read of property p.  arr holds the observed array; x1 and
\* x2 are the key x of the plain objects, an accessor once the object is observed.
ReactiveGetter(st, p) ==
  IF st.target = Null THEN st
  ELSE IF p = "arr"
       THEN LET st1 == Depend(st, p)
                st2 == IF st1.obCount[ArrRef] > 0 THEN Depend(st1, ObDep[ArrRef]) ELSE st1
            IN DependElements(st2, 1)
       ELSE IF p \in {"x1", "x2"}
            THEN IF st.obCount[XOwner[p]] > 0 THEN Depend(st, p) ELSE st
            ELSE Then(Depend(st, p), LAMBDA st1 : DependChild(st1, p))

RECURSIVE UnsubAll(_, _, _)
UnsubAll(st, w, i) ==
  IF i = 0 THEN st ELSE UnsubAll(RemoveSub(st, st.ws[w].deps[i], w), w, i - 1)

\* teardown() that leaves the watcher in the subscriber lists.
TeardownKeepSubs(st, w) ==
  IF st.ws[w].active
  THEN [st EXCEPT !.vmWatchers = Remove(@, w),
                  !.ws[w].active = FALSE, !.ws[w].value = Null]
  ELSE st

\* Watcher.prototype.teardown (the owner is not being destroyed)
Teardown(st, w) ==
  IF st.ws[w].active
  THEN LET st1 == [st EXCEPT !.vmWatchers = Remove(@, w)]
           st2 == UnsubAll(st1, w, Len(st1.ws[w].deps))
       IN [st2 EXCEPT !.ws[w].active = FALSE, !.ws[w].value = Null]
  ELSE st

RECURSIVE Observe(_, _, _)
RECURSIVE ObserveArray(_, _, _)

\* Observer.prototype.observeArray
ObserveArray(st, inserted, i) ==
  IF i > Len(inserted) THEN st
  ELSE ObserveArray(Observe(st, inserted[i], 0), inserted, i + 1)

\* observe() that does not look for __ob__.
ObserveAlwaysNew(st, value, vm) ==
  IF ~IsObject(value) THEN st
  ELSE LET st1 == IF st.shouldConvert
                  THEN LET made == [st EXCEPT !.obCount[value] = @ + 1]
                       IN IF value = ArrRef THEN ObserveArray(made, made.arr, 1)
                          ELSE made
                  ELSE st
       IN IF st1.obCount[value] > 0 /\ vm # 0
          THEN [st1 EXCEPT !.vms[value] = Append(@, vm)]
          ELSE st1

\* observe(value, vm); new Observer(value) counts in obCount and, for the array,
\* observes the elements (the plain objects of the model have no keys to walk).
\* Every object of the model is extensible and is not a Vue instance.
Observe(st, value, vm) ==
  IF ~IsObject(value) THEN st
  ELSE LET st1 == IF st.obCount[value] > 0 THEN st
                  ELSE IF st.shouldConvert
                       THEN LET made == [st EXCEPT !.obCount[value] = @ + 1]
                            IN IF value = ArrRef THEN ObserveArray(made, made.arr, 1)
                               ELSE made
                       ELSE st
       IN IF st1.obCount[value] > 0 /\ vm # 0
          THEN [st1 EXCEPT !.vms[value] = Append(@, vm)]
          ELSE st1

\* reactiveSetter without the test newVal === value.
ReactiveSetterAlways(st, p, newVal) ==
  [st EXCEPT !.val[p] = newVal,
             !.push = <<[NotifyFrame(p, ToArray(st.subs[p]), newVal, st.val[p])
                           EXCEPT !.n = st.ops + 1]>>]

\* reactiveSetter that does not observe the new value.
ReactiveSetterNoObserve(st, p, newVal) ==
  LET value == st.val[p]
  IN IF StrictEq(newVal, value) THEN st
     ELSE [st EXCEPT !.val[p] = newVal,
                     !.push = <<[NotifyFrame(p, ToArray(st.subs[p]), newVal, value)
                                   EXCEPT !.n = st.ops + 1]>>]

\* reactiveSetter of property p, called with newVal
ReactiveSetter(st, p, newVal) ==
  LET value == st.val[p]
      st1 == Observe([st EXCEPT !.val[p] = newVal], newVal, 0)
  IN IF StrictEq(newVal, value) THEN st
     ELSE [st1 EXCEPT !.childOb[p] = IsObject(newVal) /\ st1.obCount[newVal] > 0,
                      !.push = <<[NotifyFrame(p, ToArray(st.subs[p]), newVal, value)
                                    EXCEPT !.n = st.ops + 1]>>]

RECURSIVE Get(_, _)
RECURSIVE GetValue(_, _)

\* evaluate() that leaves Dep.target as get() left it.
EvaluateNoRestore(st, w) ==
  LET value == GetValue(st, w)
      st1 == Get(st, w)
  IN [st1 EXCEPT !.ws[w].value = value, !.ws[w].dirty = FALSE,
                 !.ws[w].current = st.target]

\* Watcher.prototype.evaluate
Evaluate(st, w) ==
  LET current == st.target
      value == GetValue(st, w)
      st1 == Get(st, w)
  IN [st1 EXCEPT !.ws[w].value = value, !.ws[w].dirty = FALSE,
                 !.ws[w].current = current, !.target = current]

\* Watcher.prototype.depend that registers nothing.
WatcherDependNone(st, w, i) == st

\* Watcher.prototype.depend: var i = this.deps.length; while (i--) this.deps[i].depend()
RECURSIVE WatcherDepend(_, _, _)
WatcherDepend(st, w, i) ==
  IF i = 0 THEN st ELSE WatcherDepend(Depend(st, st.ws[w].deps[i]), w, i - 1)

\* computedGetter that evaluates on every read.
ComputedGetterAlways(st, w) ==
  LET st0 == [st EXCEPT !.ws[w].pulls = IF @ < MaxTrig THEN @ + 1 ELSE @]
  IN Then(Evaluate(st0, w), LAMBDA st1 :
            IF st1.target # Null THEN WatcherDepend(st1, w, Len(st1.ws[w].deps))
            ELSE st1)

\* computedGetter of makeComputedGetter: the heap after a read of the computed
\* property; the value it returns is ComputedValue on the heap before it.
ComputedGetter(st, w) ==
  LET st0 == [st EXCEPT !.ws[w].pulls = IF @ < MaxTrig THEN @ + 1 ELSE @]
  IN Then(IF st0.ws[w].dirty THEN Evaluate(st0, w) ELSE st0, LAMBDA st1 :
            IF st1.target # Null THEN WatcherDepend(st1, w, Len(st1.ws[w].deps))
            ELSE st1)

ComputedValue(st, w) == IF st.ws[w].dirty THEN GetValue(st, w) ELSE st.ws[w].value

RECURSIVE ReadAll(_, _, _)
ReadAll(st, reads, i) ==
  IF i > Len(reads) THEN st
  ELSE ReadAll(IF reads[i] = "c" THEN ComputedGetter(st, LazyId)
               ELSE ReactiveGetter(st, reads[i]), reads, i + 1)

\* Watcher.prototype.beforeGet
BeforeGet(st, w) == [st EXCEPT !.target = w]

RECURSIVE RemoveStale(_, _, _)
RemoveStale(st, w, i) ==
  IF i = 0 THEN st
  ELSE LET dep == st.ws[w].deps[i]
       IN RemoveStale(IF dep \notin st.ws[w].newDepIds THEN RemoveSub(st, dep, w) ELSE st,
                      w, i - 1)

\* afterGet that leaves the stale subscriptions in place.
AfterGetKeepStale(st, w) ==
  LET st1 == [st EXCEPT !.target = Null]
  IN [st1 EXCEPT !.ws[w].depIds = st1.ws[w].newDepIds,
                 !.ws[w].newDepIds = {},
                 !.ws[w].deps = st1.ws[w].newDeps,
                 !.ws[w].newDeps = <<>>]

\* Watcher.prototype.afterGet
AfterGet(st, w) ==
  LET st1 == RemoveStale([st EXCEPT !.target = Null], w, Len(st.ws[w].deps))
  IN [st1 EXCEPT !.ws[w].depIds = st1.ws[w].newDepIds,
                 !.ws[w].newDepIds = {},
                 !.ws[w].deps = st1.ws[w].newDeps,
                 !.ws[w].newDeps = <<>>]

\* The reads the getter makes before its call of teardown() or of a setter.
ReadsBefore(kind, v) ==
  IF kind = "writer" THEN <<"a">> ELSE GetterReads(kind, v)

\* Watcher.prototype.get up to the return of what the getter calls: beforeGet(),
\* the reads before the call, and unwatch() or the setter of b (which leaves
\* its notify() in push).
GetBegin(st, w) ==
  LET kind == st.ws[w].getter
  IN Then(ReadAll(BeforeGet(st, w), ReadsBefore(kind, st.val), 1), LAMBDA st1 :
            CASE kind = "stopper" /\ Truthy(st.val["flag"]) -> Teardown(st1, w)
              [] kind = "writer" -> ReactiveSetter(st1, "b", st1.val["a"])
              [] OTHER -> st1)

\* Watcher.prototype.get from there: the remaining reads and afterGet().
GetEnd(st, w) ==
  LET kind == st.ws[w].getter
      reads == GetterReads(kind, st.val)
      rest == SubSeq(reads, Len(ReadsBefore(kind, st.val)) + 1, Len(reads))
      st1 == AfterGet(ReadAll(st, rest, 1), w)
  IN [st1 EXCEPT !.ws[w].reads = SeqToSet(reads),
                 !.ws[w].evals = IF @ < MaxTrig THEN @ + 1 ELSE @]

\* Watcher.prototype.get from the catch block: the setter the getter called threw.
GetCaught(st, w) ==
  LET st1 == AfterGet(st, w)
  IN [st1 EXCEPT !.ws[w].reads = SeqToSet(ReadsBefore(st.ws[w].getter, st.val)),
                 !.ws[w].evals = IF @ < MaxTrig THEN @ + 1 ELSE @]

\* Watcher.prototype.get when nothing the getter calls calls back: the heap after
\* the evaluation.  The value it returns is GetterValue on the heap before it.
Get(st, w) == Then(GetBegin(st, w), LAMBDA st1 : GetEnd(st1, w))

GetValue(st, w) ==
  IF st.ws[w].getter \in {"sum", "bsum"}
  THEN ComputedValue(st, LazyId) + st.val["b"]
  ELSE IF st.ws[w].getter = "path" /\ st.val["a"] \in PlainObjects
       THEN st.xs[st.val["a"]]
       ELSE GetterValue(st.ws[w].getter, st.val)

\* -------------------------------------------------------------- batcher
\* nextTick(cb)
NextTick(st, cb) ==
  [st EXCEPT !.callbacks = Append(@, cb), !.pending = TRUE]

\* pushWatcher without the test of has[id].
PushWatcherNoDedup(st, w) ==
  LET n == IF st.ws[w].user THEN Len(st.userQueue) ELSE Len(st.queue)
      st1 == [st EXCEPT !.has[w] = n,
                        !.userQueue = IF st.ws[w].user THEN Append(@, w) ELSE @,
                        !.queue = IF st.ws[w].user THEN @ ELSE Append(@, w)]
  IN IF ~st1.waiting
     THEN NextTick([st1 EXCEPT !.waiting = TRUE], "flushBatcherQueue")
     ELSE st1

\* pushWatcher without the test of waiting.
PushWatcherAlwaysSchedule(st, w) ==
  IF st.has[w] = Null
  THEN LET n == IF st.ws[w].user THEN Len(st.userQueue) ELSE Len(st.queue)
           st1 == [st EXCEPT !.has[w] = n,
                             !.userQueue = IF st.ws[w].user THEN Append(@, w) ELSE @,
                             !.queue = IF st.ws[w].user THEN @ ELSE Append(@, w)]
       IN NextTick([st1 EXCEPT !.waiting = TRUE], "flushBatcherQueue")
  ELSE st

\* pushWatcher
PushWatcher(st, w) ==
  IF st.has[w] = Null
  THEN LET n == IF st.ws[w].user THEN Len(st.userQueue) ELSE Len(st.queue)
           st1 == [st EXCEPT !.has[w] = n,
                             !.userQueue = IF st.ws[w].user THEN Append(@, w) ELSE @,
                             !.queue = IF st.ws[w].user THEN @ ELSE Append(@, w)]
       IN IF ~st1.waiting
          THEN NextTick([st1 EXCEPT !.waiting = TRUE], "flushBatcherQueue")
          ELSE st1
  ELSE st

\* resetBatcherState
ResetBatcherState(st) ==
  [st EXCEPT !.queue = <<>>, !.userQueue = <<>>,
             !.has = [w \in WatcherIds |-> Null],
             !.circular = [w \in WatcherIds |-> 0],
             !.waiting = FALSE]

\* -------------------------------------------------------------- Watcher
\* run() without the test of this.active.
RunInactiveToo(st, w) ==
  LET st0 == [st EXCEPT !.ws[w].trig = 0, !.ws[w].by = 0]
      value == GetValue(st0, w)
      st1 == Get(st0, w)
      me == st1.ws[w]
  IN IF ~StrictEq(value, me.value) \/ ((IsObject(value) \/ me.deep) /\ ~me.shallow)
     THEN [st1 EXCEPT !.ws[w].value = value,
                      !.push = <<CbFrame(w, value, me.value, st.ws[w].trig,
                                          st.ws[w].deps)>>]
     ELSE [st1 EXCEPT !.ws[w].queued = FALSE, !.ws[w].shallow = FALSE]

\* Watcher.prototype.run after get() returned value, up to the call of the
\* callback; the statement after the call (queued = shallow = false) is done when
\* the callback returns.  this.cb is null once the watcher is torn down, and
\* this.cb.call is then a TypeError.
RunEnd(st, w, value, n, prev) ==
  LET me == st.ws[w]
  IN IF ~StrictEq(value, me.value) \/ ((IsObject(value) \/ me.deep) /\ ~me.shallow)
     THEN IF me.active
          THEN [st EXCEPT !.ws[w].value = value,
                          !.push = <<CbFrame(w, value, me.value, n, prev)>>]
          ELSE [st EXCEPT !.ws[w].value = value, !.threw = TRUE]
     ELSE [st EXCEPT !.ws[w].queued = FALSE, !.ws[w].shallow = FALSE]

\* Watcher.prototype.run; when the getter's setter calls notify(), run() goes on
\* (GetFrame) after notify() has returned.  An exception of a filter leaves get()
\* after the getter's reads and before afterGet(), and leaves run().
Run(st, w) ==
  LET st0 == [st EXCEPT !.ws[w].trig = 0, !.ws[w].by = 0, !.ws[w].ns = FALSE]
      n == st.ws[w].trig
      prev == st.ws[w].deps
  IN IF st.ws[w].active
     THEN Then(GetBegin(st0, w), LAMBDA st1 :
            IF st1.push # <<>>
            THEN [st1 EXCEPT !.push = @ \o <<GetFrame(w, n, prev)>>]
            ELSE IF FilterThrows(st.ws[w].getter, st.val)
            THEN [st1 EXCEPT !.threw = TRUE]
            ELSE Then(GetEnd(st1, w), LAMBDA st2 :
                   RunEnd(st2, w, GetValue(st0, w), n, prev)))
     ELSE st0

\* update() that runs every watcher inline.
UpdateInline(st0, w, shallow) ==
  LET st == [st0 EXCEPT !.ws[w].evals = 0, !.ws[w].pulls = 0]
      me == st.ws[w]
  IN IF me.lazy THEN [st EXCEPT !.ws[w].dirty = TRUE]
     ELSE Run(st, w)

\* Watcher.prototype.update(shallow); evals and pulls count since this call, and
\* ns remembers (history) a call with shallow false since the last run() started.
Update(st0, w, shallow) ==
  LET st == [st0 EXCEPT !.ws[w].evals = 0, !.ws[w].pulls = 0]
      me == st.ws[w]
  IN IF me.lazy THEN [st EXCEPT !.ws[w].dirty = TRUE]
     ELSE IF me.sync \/ ~ConfigAsync THEN Run(st, w)
     ELSE PushWatcher(
            [st EXCEPT !.ws[w].shallow = IF me.queued
                                         THEN (IF shallow THEN me.shallow ELSE FALSE)
                                         ELSE shallow,
                       !.ws[w].queued = TRUE,
                       !.ws[w].trig = IF @ < MaxTrig THEN @ + 1 ELSE @,
                       !.ws[w].by = st.by,
                       !.ws[w].ns = @ \/ ~shallow], w)

\* new Watcher(vm, expOrFn, cb, options); options.deep is the deep of the
\* record the watcher replaces.
NewWatcher(st, w, kind, sync, user, lazy, cbKind) ==
  LET obj == [getter |-> kind, sync |-> sync, user |-> user, lazy |-> lazy,
              deep |-> st.ws[w].deep, cbKind |-> cbKind, active |-> TRUE, dirty |-> lazy,
              deps |-> <<>>, newDeps |-> <<>>, depIds |-> {}, newDepIds |-> {},
              value |-> Undefined, queued |-> FALSE, shallow |-> FALSE,
              reads |-> {}, trig |-> 0, by |-> 0, evals |-> 0, pulls |-> 0,
              current |-> Null, ns |-> FALSE]
      st1 == [st EXCEPT !.ws[w] = obj, !.vmWatchers = Append(@, w)]
      value == GetValue(st1, w)
      st2 == Get(st1, w)
  IN IF lazy THEN st1 ELSE [st2 EXCEPT !.ws[w].value = value]

\* ---------------------------------------------------------------- Cache
\* An entry is identified by its key: _keymap[key] is key or undefined, and the
\* fields newer, older, value of the entry are kept per key.
CacheKeys == 1 .. MaxKeys

\* new Cache(limit).  threw: the last call ended in a TypeError; used: the keys
\* of the entries a least-recently-used cache of this limit holds after the calls
\* made so far, least recently used first (history).
NewCache(limit) ==
  [size |-> 0, limit |-> limit, head |-> Undefined, tail |-> Undefined,
   keymap |-> [k \in CacheKeys |-> Undefined],
   newer |-> [k \in CacheKeys |-> Undefined],
   older |-> [k \in CacheKeys |-> Undefined],
   value |-> [k \in CacheKeys |-> Undefined],
   ret |-> Undefined, threw |-> FALSE, used |-> <<>>]

\* Cache.prototype.get
CacheGet(c, key, returnEntry) ==
  LET entry == c.keymap[key]
      result == IF returnEntry THEN entry ELSE c.value[entry]
      c1 == IF c.newer[entry] # Undefined
            THEN [c EXCEPT !.head = IF entry = c.head THEN c.newer[entry] ELSE @,
                           !.older[c.newer[entry]] = c.older[entry]]
            ELSE c
      c2 == IF c1.older[entry] # Undefined
            THEN [c1 EXCEPT !.newer[c1.older[entry]] = c1.newer[entry]]
            ELSE c1
      c3 == [c2 EXCEPT !.newer[entry] = Undefined, !.older[entry] = c2.tail]
      c4 == IF c3.tail # Undefined THEN [c3 EXCEPT !.newer[c3.tail] = entry] ELSE c3
  IN IF entry = Undefined THEN [c EXCEPT !.ret = Undefined]
     ELSE IF entry = c.tail THEN [c EXCEPT !.ret = result]
     ELSE [c4 EXCEPT !.tail = entry, !.ret = result]

\* Cache.prototype.shift: this.head.older = undefined is a TypeError when the
\* removed entry had no newer one; this.head is assigned before it.
CacheShift(c) ==
  LET entry == c.head
      c1 == [c EXCEPT !.head = c.newer[entry]]
      c2 == [c1 EXCEPT !.older[c1.head] = Undefined, !.newer[entry] = Undefined,
                       !.older[entry] = Undefined, !.keymap[entry] = Undefined,
                       !.size = @ - 1]
  IN IF entry = Undefined THEN [c EXCEPT !.ret = Undefined]
     ELSE IF c1.head = Undefined THEN [c1 EXCEPT !.threw = TRUE]
     ELSE [c2 EXCEPT !.ret = entry]

\* Cache.prototype.put
CachePut(c, key, value) ==
  LET g == CacheGet(c, key, TRUE)
      entry == g.ret
      s == IF g.size = g.limit THEN CacheShift(g) ELSE [g EXCEPT !.ret = Undefined]
      removed == s.ret
      c1 == [s EXCEPT !.keymap[key] = key, !.newer[key] = Undefined,
                      !.older[key] = s.tail]
      c2 == IF s.tail # Undefined THEN [c1 EXCEPT !.newer[s.tail] = key]
            ELSE [c1 EXCEPT !.head = key]
      c3 == [c2 EXCEPT !.tail = key, !.size = @ + 1]
  IN IF entry # Undefined THEN [g EXCEPT !.value[key] = value, !.ret = Undefined]
     ELSE IF s.threw THEN s
     ELSE [c3 EXCEPT !.value[key] = value, !.ret = removed]

\* ------------------------------------------------------------- traverse
\* A value graph: containers (extensible objects or arrays) 1 .. MaxNodes, an edge
\* <<n, m>> for a key or index of n that holds m, and the containers that have an
\* Observer (__ob__).  traverse() is called on container 1.
Nodes == 1 .. MaxNodes
\* The call stack of the engine, in frames of traverse(): a traversal that nests
\* deeper is walking a cycle and ends in a RangeError.
StackLimit == MaxNodes + 1

NewTrav(edges, observed) ==
  [edges |-> edges, observed |-> observed, stk |-> <<>>, seen |-> {},
   visits |-> [n \in Nodes |-> 0], status |-> "idle"]

\* The keys of n that hold containers, in the order of while (i--).
RECURSIVE Descending(_)
Descending(S) ==
  IF S = {} THEN <<>>
  ELSE LET m == CHOOSE x \in S : \A y \in S : y <= x
       IN <<m>> \o Descending(S \ {m})

\* traverse(val, seen) called on container n, up to its loop: return if
\* val.__ob__.dep.id is in seen, add it otherwise; visits counts the calls that
\* get to the loop.
Traverse(t, n) ==
  IF t.observed[n] /\ n \in t.seen THEN t
  ELSE IF Len(t.stk) = StackLimit THEN [t EXCEPT !.status = "overflow", !.stk = <<>>]
  ELSE [t EXCEPT !.seen = IF t.observed[n] THEN @ \cup {n} ELSE @,
                 !.visits[n] = @ + 1,
                 !.stk = <<[node |-> n,
                            rest |-> Descending({m \in Nodes : <<n, m>> \in t.edges})]>> \o @]

\* ----------------------------------------------------------------- Init
Blank == [getter |-> "cond", sync |-> FALSE, user |-> FALSE, lazy |-> FALSE,
          deep |-> FALSE, cbKind |-> "any", active |-> FALSE, dirty |-> FALSE,
          deps |-> <<>>, newDeps |-> <<>>, depIds |-> {}, newDepIds |-> {},
          value |-> Undefined, queued |-> FALSE, shallow |-> FALSE,
          reads |-> {}, trig |-> 0, by |-> 0, evals |-> 0, pulls |-> 0,
          current |-> Null, ns |-> FALSE]

\* An instance after _init and before $mount. build is the copy of _compile it
\* runs: "source" is src/unnamed/part_000, "bundle" is src/unnamed/part_003.
\* Watcher 0 is a $watch of the instance; watcher d belongs to directive d.
NewVm(build, vPre, hasChild, nDirs) ==
  [build |-> build, vPre |-> vPre, hasChild |-> hasChild, nDirs |-> nDirs,
   el |-> FALSE, linked |-> {}, bound |-> {}, active |-> {0}, watcherList |-> TRUE,
   unlinkFn |-> FALSE, isCompiled |-> FALSE,
   isBeingDestroyed |-> FALSE, isDestroyed |-> FALSE,
   hooks |-> <<>>, cleanups |-> 0, calls |-> 0, undeferred |-> FALSE,
   closures |-> [c \in 1 .. MaxDestroy |->
                  [pendingRemoval |-> FALSE, destroyReady |-> FALSE, deferCleanup |-> FALSE]],
   stk |-> <<>>]

Heap0 ==
  [val |-> [p \in Props |-> 0], subs |-> [p \in Deps |-> <<>>], target |-> Null,
   ws |-> [w \in WatcherIds |-> Blank], vmWatchers |-> <<>>,
   queue |-> <<>>, userQueue |-> <<>>, has |-> [w \in WatcherIds |-> Null],
   circular |-> [w \in WatcherIds |-> 0], waiting |-> FALSE,
   callbacks |-> <<>>, pending |-> FALSE, arr |-> <<>>,
   obCount |-> [o \in Objects |-> 0], vms |-> [o \in Objects |-> <<>>],
   shouldConvert |-> TRUE, cache |-> NewCache(1),
   xs |-> [o \in PlainObjects |-> 0], childOb |-> [p \in Props |-> FALSE],
   trav |-> NewTrav({}, [n \in Nodes |-> FALSE]), dir |-> [locked |-> FALSE],
   inst |-> NewVm("bundle", FALSE, FALSE, 1),
   ret |-> <<>>, call |-> <<>>,
   ops |-> 0, by |-> 0, push |-> <<>>, threw |-> FALSE]

InitWith(st) ==
  /\ val = st.val
  /\ subs = st.subs
  /\ target = st.target
  /\ watchers = st.ws
  /\ vmWatchers = st.vmWatchers
  /\ queue = st.queue
  /\ userQueue = st.userQueue
  /\ has = st.has
  /\ circular = st.circular
  /\ waiting = st.waiting
  /\ callbacks = st.callbacks
  /\ pending = st.pending
  /\ items = st.arr
  /\ obCount = st.obCount
  /\ vms = st.vms
  /\ shouldConvert = st.shouldConvert
  /\ cache = st.cache
  /\ xs = st.xs
  /\ childOb = st.childOb
  /\ trav = st.trav
  /\ dir = st.dir
  /\ inst = st.inst
  /\ ret = st.ret
  /\ call = st.call
  /\ runs = [w \in WatcherIds |-> 0]
  /\ ops = 0
  /\ stack = <<>>

\* Two watchers are constructed, in id order, on the state {flag: 0, a: 0, b: 0}.
\* Watcher options: a directive's watcher, a $watch watcher (user), a sync one.
Options == {<<FALSE, FALSE>>, <<FALSE, TRUE>>, <<TRUE, FALSE>>}

Init ==
  \E k1 \in GetterKinds, k2 \in GetterKinds, o1 \in Options, o2 \in Options :
    InitWith(NewWatcher(NewWatcher(Heap0, 1, k1, o1[1], o1[2], FALSE, "any"),
                        2, k2, o2[1], o2[2], FALSE, "any"))

\* -------------------------------------------------------------- actions
Top == Head(stack)

\* The stack an exception leaves: the only catch block between a callback and the
\* event loop is the one of get() around the call of the getter.
Unwind(stk) ==
  LET gets == {i \in 1 .. Len(stk) : stk[i].k = "get"}
      m == CHOOSE i \in gets : \A j \in gets : i <= j
  IN IF gets = {} THEN <<>>
     ELSE <<[stk[m] EXCEPT !.i = 1]>> \o SubSeq(stk, m + 1, Len(stk))

\* The stack after the top frame became f and the frames of st.push were called,
\* or after the TypeError of run().
Called(st, f) ==
  IF st.threw THEN Unwind(Tail(stack)) ELSE st.push \o <<f>> \o Tail(stack)

\* A script outside any watcher assigns state[p] = v.
Set(p, v) ==
  /\ stack = <<>> /\ ops < MaxOps
  /\ LET st == ReactiveSetter(Cur, p, v)
     IN Commit(st) /\ stack' = st.push
  /\ ops' = ops + 1
  /\ UNCHANGED runs

\* A script outside any watcher calls w.teardown().
TeardownCall(w) ==
  /\ stack = <<>> /\ ops < MaxOps
  /\ Commit(Teardown(Cur, w))
  /\ ops' = ops + 1
  /\ UNCHANGED <<runs, stack>>

\* nextTickHandler starts: pending = false, copies = callbacks.slice(0).
Tick ==
  /\ stack = <<>>
  /\ pending
  /\ Commit([Cur EXCEPT !.pending = FALSE, !.callbacks = <<>>])
  /\ stack' = <<TickFrame(callbacks)>>
  /\ UNCHANGED <<runs, ops>>

\* nextTickHandler: copies[i]() calls flushBatcherQueue.
TickCall ==
  /\ stack # <<>> /\ Top.k = "tick" /\ Top.i <= Len(Top.snap)
  /\ Top.snap[Top.i] = "flushBatcherQueue"
  /\ stack' = <<FlushFrame("queue"), [Top EXCEPT !.i = @ + 1]>> \o Tail(stack)
  /\ runs' = [w \in WatcherIds |-> 0]
  /\ Commit(Cur)
  /\ UNCHANGED ops

TickReturn ==
  /\ stack # <<>> /\ Top.k = "tick" /\ Top.i > Len(Top.snap)
  /\ stack' = Tail(stack)
  /\ Commit(Cur)
  /\ UNCHANGED <<runs, ops>>

FlushQ == IF Top.d = "queue" THEN queue ELSE userQueue

\* One iteration of the loop that leaves has[id] as it is.
FlushRunBodyKeepMarker(count) ==
  /\ stack # <<>> /\ Top.k = "flush" /\ Top.i <= Len(FlushQ)
  /\ LET w == FlushQ[Top.i]
         st == Run(Cur, w)
     IN /\ Commit(st)
        /\ stack' = Called(st, [Top EXCEPT !.i = @ + 1])
        /\ runs' = IF count THEN [runs EXCEPT ![w] = @ + 1] ELSE runs
  /\ UNCHANGED ops

\* runBatcherQueue: one iteration of the loop (has[id] = null; watcher.run()).
FlushRunBody(count) ==
  /\ stack # <<>> /\ Top.k = "flush" /\ Top.i <= Len(FlushQ)
  /\ LET w == FlushQ[Top.i]
         st == Run([Cur EXCEPT !.has[w] = Null], w)
     IN /\ Commit(st)
        /\ stack' = Called(st, [Top EXCEPT !.i = @ + 1])
        /\ runs' = IF count THEN [runs EXCEPT ![w] = @ + 1] ELSE runs
  /\ UNCHANGED ops

FlushRun == FlushRunBody(FALSE)

\* runBatcherQueue(queue) ends (queue.length = 0); runBatcherQueue(userQueue) starts.
FlushEndQueue ==
  /\ stack # <<>> /\ Top.k = "flush" /\ Top.d = "queue" /\ Top.i > Len(queue)
  /\ Commit([Cur EXCEPT !.queue = <<>>])
  /\ stack' = <<[Top EXCEPT !.d = "userQueue", !.i = 1]>> \o Tail(stack)
  /\ UNCHANGED <<runs, ops>>

\* runBatcherQueue(userQueue) ends and queue.length is not 0: flushBatcherQueue again.
FlushRecurse ==
  /\ stack # <<>> /\ Top.k = "flush" /\ Top.d = "userQueue" /\ Top.i > Len(userQueue)
  /\ Len(queue) > 0
  /\ Commit([Cur EXCEPT !.userQueue = <<>>])
  /\ stack' = <<[Top EXCEPT !.d = "queue", !.i = 1, !.n = @ + 1]>> \o Tail(stack)
  /\ UNCHANGED <<runs, ops>>

\* flushBatcherQueue that returns without looking at queue.length.
FlushReturnEarly ==
  /\ stack # <<>> /\ Top.k = "flush" /\ Top.d = "userQueue" /\ Top.i > Len(userQueue)
  /\ Commit(ResetBatcherState([Cur EXCEPT !.userQueue = <<>>]))
  /\ stack' = Tail(stack)
  /\ UNCHANGED <<runs, ops>>

\* runBatcherQueue(userQueue) ends, queue is empty: resetBatcherState, return.
FlushReturn ==
  /\ stack # <<>> /\ Top.k = "flush" /\ Top.d = "userQueue" /\ Top.i > Len(userQueue)
  /\ Len(queue) = 0
  /\ Commit(ResetBatcherState([Cur EXCEPT !.userQueue = <<>>]))
  /\ stack' = Tail(stack)
  /\ UNCHANGED <<runs, ops>>

\* notify() that walks the live subscriber list.
NotifySubsLive(st, f) == st.subs[f.d]

\* Dep.prototype.notify: var subs = toArray(this.subs), taken when notify() starts
NotifySubs(st, f) == f.snap

\* Dep.prototype.notify: subs[i].update()
NotifyStep ==
  /\ stack # <<>> /\ Top.k = "notify" /\ Top.i <= Len(NotifySubs(Cur, Top))
  /\ LET st == Update(Cur, NotifySubs(Cur, Top)[Top.i], FALSE)
     IN Commit(st) /\ stack' = Called(st, [Top EXCEPT !.i = @ + 1])
  /\ UNCHANGED <<runs, ops>>

\* Dep.prototype.notify: subs[i].update(), the watcher remembering (history, by)
\* the number of the assignment that called this notify(), and the step (call)
\* the watcher update() is called on.
NotifyStepStamped ==
  /\ stack # <<>> /\ Top.k = "notify" /\ Top.i <= Len(NotifySubs(Cur, Top))
  /\ LET w == NotifySubs(Cur, Top)[Top.i]
         st == Update([Cur EXCEPT !.by = Top.n, !.call = <<"update", <<w>>>>], w, FALSE)
     IN Commit(st) /\ stack' = Called(st, [Top EXCEPT !.i = @ + 1])
  /\ UNCHANGED <<runs, ops>>

\* Dep.prototype.notify returns, and with it the setter that called it.
NotifyReturn ==
  /\ stack # <<>> /\ Top.k = "notify" /\ Top.i > Len(NotifySubs(Cur, Top))
  /\ stack' = Tail(stack)
  /\ Commit(Cur)
  /\ UNCHANGED <<runs, ops>>

InCb == stack # <<>> /\ Top.k = "cb"

\* The callback assigns state[p] = v.
CbSet(p, v) ==
  /\ InCb /\ watchers[Top.w].cbKind = "any"
  /\ Top.i < MaxCbOps /\ ops < MaxOps
  /\ LET st == ReactiveSetter(Cur, p, v)
     IN Commit(st)
        /\ stack' = Called(st, [Top EXCEPT !.i = @ + 1, !.d = p, !.nv = v, !.ov = val[p]])
  /\ ops' = ops + 1
  /\ UNCHANGED runs

\* The callback tears a watcher down (itself or another).
CbTeardown(w) ==
  /\ InCb /\ watchers[Top.w].cbKind = "any"
  /\ Top.i < MaxCbOps /\ ops < MaxOps
  /\ Commit(Teardown(Cur, w))
  /\ stack' = <<[Top EXCEPT !.i = @ + 1, !.d = "", !.nv = 0, !.ov = 0]>> \o Tail(stack)
  /\ ops' = ops + 1
  /\ UNCHANGED runs

\* The callback throws.
CbThrow ==
  /\ InCb /\ watchers[Top.w].cbKind = "any"
  /\ stack' = Unwind(Tail(stack))
  /\ Commit(Cur)
  /\ UNCHANGED <<runs, ops>>

\* The callback returns into run(): this.queued = this.shallow = false.
CbReturn ==
  /\ InCb /\ watchers[Top.w].cbKind # "dir"
  /\ watchers[Top.w].cbKind = "redirty" => Top.i > 0
  /\ Commit([Cur EXCEPT !.ws[Top.w].queued = FALSE, !.ws[Top.w].shallow = FALSE])
  /\ stack' = Tail(stack)
  /\ UNCHANGED <<runs, ops>>

Next ==
  \/ \E p \in Props, v \in Values : Set(p, v)
  \/ \E w \in WatcherIds : TeardownCall(w)
  \/ Tick
  \/ TickCall
  \/ TickReturn
  \/ FlushRun
  \/ FlushEndQueue
  \/ FlushRecurse
  \/ FlushReturn
  \/ NotifyStep
  \/ NotifyReturn
  \/ \E p \in Props, v \in Values : CbSet(p, v)
  \/ \E w \in WatcherIds : CbTeardown(w)
  \/ CbThrow
  \/ CbReturn

Spec == Init /\ [][Next]_vars

\* The same program, each watcher remembering which assignment dirtied it last.
NextBands ==
  \/ \E p \in Props, v \in Values : Set(p, v)
  \/ \E w \in WatcherIds : TeardownCall(w)
  \/ Tick
  \/ TickCall
  \/ TickReturn
  \/ FlushRun
  \/ FlushEndQueue
  \/ FlushRecurse
  \/ FlushReturn
  \/ NotifyStepStamped
  \/ NotifyReturn
  \/ \E p \in Props, v \in Values : CbSet(p, v)
  \/ \E w \in WatcherIds : CbTeardown(w)
  \/ CbThrow
  \/ CbReturn

SpecBands == Init /\ [][NextBands]_vars

\* ------------------------------------------------- the runaway scenario
\* Both watchers go through the batcher and have the callback
\*   function () { this.b = (this.b + 1) % (MaxVal + 1) }
\* which writes a new value on every call.
InitRunaway ==
  \E k1 \in GetterKinds, k2 \in GetterKinds, u1 \in BOOLEAN, u2 \in BOOLEAN :
    InitWith(NewWatcher(NewWatcher(Heap0, 1, k1, FALSE, u1, FALSE, "redirty"),
                        2, k2, FALSE, u2, FALSE, "redirty"))

\* A flush of the model stops after RunCap runs of one watcher.
RunCap == MaxUpdateCount + 2

FlushRunCounted ==
  /\ stack # <<>> /\ Top.k = "flush" /\ Top.i <= Len(FlushQ)
  /\ runs[FlushQ[Top.i]] < RunCap
  /\ FlushRunBody(TRUE)

CbRedirty ==
  /\ InCb /\ watchers[Top.w].cbKind = "redirty" /\ Top.i = 0
  /\ LET v == (val["b"] + 1) % (MaxVal + 1)
         st == ReactiveSetter(Cur, "b", v)
     IN Commit(st)
        /\ stack' = Called(st, [Top EXCEPT !.i = @ + 1, !.d = "b", !.nv = v, !.ov = val["b"]])
  /\ UNCHANGED <<runs, ops>>

NextRunaway ==
  \/ \E p \in Props, v \in Values : Set(p, v)
  \/ Tick
  \/ TickCall
  \/ TickReturn
  \/ FlushRunCounted
  \/ FlushEndQueue
  \/ FlushRecurse
  \/ FlushReturn
  \/ NotifyStep
  \/ NotifyReturn
  \/ CbRedirty
  \/ CbReturn

SpecRunaway == InitRunaway /\ [][NextRunaway]_vars

\* ------------------------------------------------ getters with effects
\* run() of Top.w goes on after the notify() its getter started has returned or
\* thrown: the rest of get(), then the change test.
GetResume ==
  /\ stack # <<>> /\ Top.k = "get"
  /\ LET w == Top.w
         caught == Top.i = 1
         st1 == IF caught THEN GetCaught(Cur, w) ELSE GetEnd(Cur, w)
         value == IF caught THEN Undefined ELSE GetterValue(watchers[w].getter, val)
         st == RunEnd(st1, w, value, Top.n, Top.snap)
     IN /\ Commit(st)
        /\ stack' = IF st.threw THEN Unwind(Tail(stack)) ELSE st.push \o Tail(stack)
  /\ UNCHANGED <<runs, ops>>

\* The first watcher's getter tears its watcher down or assigns; the second
\* watcher is as before.
InitEffects ==
  \E k1 \in {"stopper", "writer"}, o1 \in Options, o2 \in Options :
    InitWith(NewWatcher(NewWatcher(Heap0, 1, k1, o1[1], o1[2], FALSE, "any"),
                        2, "cond", o2[1], o2[2], FALSE, "any"))

NextEffects ==
  \/ \E p \in Props, v \in Values : Set(p, v)
  \/ \E w \in WatcherIds : TeardownCall(w)
  \/ Tick
  \/ TickCall
  \/ TickReturn
  \/ FlushRunCounted
  \/ FlushEndQueue
  \/ FlushRecurse
  \/ FlushReturn
  \/ NotifyStep
  \/ NotifyReturn
  \/ GetResume
  \/ \E p \in Props, v \in Values : CbSet(p, v)
  \/ \E w \in WatcherIds : CbTeardown(w)
  \/ CbThrow
  \/ CbReturn

SpecEffects == InitEffects /\ [][NextEffects]_vars

\* ------------------------------------------------------------- Observer
\* What observe(value) returns on the heap it leaves: __ob__, or undefined.
ObserveResult(st, value) ==
  IF IsObject(value) /\ st.obCount[value] > 0 THEN <<st.obCount[value]>> ELSE <<Undefined>>

\* A script calls observe(value, vm).
ObserveCall(value, vm) ==
  /\ stack = <<>> /\ ops < MaxOps
  /\ LET st == Observe([Cur EXCEPT !.call = <<"observe", <<value, vm>>>>], value, vm)
     IN Commit([st EXCEPT !.ret = ObserveResult(st, value)])
  /\ ops' = ops + 1
  /\ UNCHANGED <<runs, stack>>

\* withoutConversion(fn) starts: shouldConvert = false; the calls until it
\* returns are those of fn.
WithoutConversion ==
  /\ stack = <<>> /\ shouldConvert
  /\ Commit([Cur EXCEPT !.shouldConvert = FALSE])
  /\ UNCHANGED <<runs, ops, stack>>

\* withoutConversion(fn): fn has returned, shouldConvert = true.
WithoutConversionReturn ==
  /\ stack = <<>> /\ ~shouldConvert
  /\ Commit([Cur EXCEPT !.shouldConvert = TRUE])
  /\ UNCHANGED <<runs, ops, stack>>

\* Plain data, nothing observed yet: an array of numbers and plain objects.
InitObserve ==
  \E a0 \in UNION {[1 .. n -> Elems] : n \in 0 .. MaxInitLen} :
    InitWith([Heap0 EXCEPT !.arr = a0])

NextObserve ==
  \/ \E value \in Objects \cup {0}, vm \in VmIds : ObserveCall(value, vm)
  \/ WithoutConversion
  \/ WithoutConversionReturn

SpecObserve == InitObserve /\ [][NextObserve]_vars

\* ---------------------------------------------------- array interceptor
Min(x, y) == IF x < y THEN x ELSE y
Max(x, y) == IF x > y THEN x ELSE y

\* Array.prototype.sort with no comparator: by the string of the element, stable,
\* undefined last ("0" < "1" < "[object Object]").
SortKey(x) == IF x = Undefined THEN MaxVal + 2 ELSE IF IsObject(x) THEN MaxVal + 1 ELSE x

RECURSIVE SortFrom(_, _)
SortFrom(a, k) ==
  IF k > MaxVal + 2 THEN <<>>
  ELSE SelectSeq(a, LAMBDA x : SortKey(x) = k) \o SortFrom(a, k + 1)

\* original.apply(this, args): the native method on elements a; what it leaves
\* in the array and what it returns (a scalar r as <<r>>, the array spliced out
\* as its elements, the array itself as <<ArrRef>>).
Original(method, a, args) ==
  CASE method = "push" -> [arr |-> a \o args, result |-> <<Len(a) + Len(args)>>]
    [] method = "unshift" -> [arr |-> args \o a, result |-> <<Len(a) + Len(args)>>]
    [] method = "pop" ->
         IF a = <<>> THEN [arr |-> a, result |-> <<Undefined>>]
         ELSE [arr |-> SubSeq(a, 1, Len(a) - 1), result |-> <<a[Len(a)]>>]
    [] method = "shift" ->
         IF a = <<>> THEN [arr |-> a, result |-> <<Undefined>>]
         ELSE [arr |-> Tail(a), result |-> <<Head(a)>>]
    [] method = "splice" ->
         IF args = <<>> THEN [arr |-> a, result |-> <<>>]
         ELSE LET start == IF args[1] < 0 THEN Max(Len(a) + args[1], 0)
                           ELSE Min(args[1], Len(a))
                  count == IF Len(args) = 1 THEN Len(a) - start
                           ELSE Min(Max(args[2], 0), Len(a) - start)
              IN [arr |-> SubSeq(a, 1, start) \o SubSeq(args, 3, Len(args))
                            \o SubSeq(a, start + count + 1, Len(a)),
                  result |-> SubSeq(a, start + 1, start + count)]
    [] method = "sort" -> [arr |-> SortFrom(a, 0), result |-> <<ArrRef>>]
    [] method = "reverse" ->
         [arr |-> [i \in 1 .. Len(a) |-> a[Len(a) + 1 - i]], result |-> <<ArrRef>>]

\* mutator: the switch that picks the inserted elements.
Inserted(method, args) ==
  CASE method \in {"push", "unshift"} -> args
    [] method = "splice" -> SubSeq(args, 3, Len(args))
    [] OTHER -> <<>>

\* mutator that observes nothing.
MutatorNoObserve(st, method, args) ==
  LET r == Original(method, st.arr, args)
      st1 == [st EXCEPT !.arr = r.arr, !.ret = r.result]
  IN [st1 EXCEPT !.push = <<NotifyFrame("list", ToArray(st1.subs["list"]), 0, 0)>>]

\* mutator: the wrapped method called on the observed array, up to the loop of
\* ob.dep.notify(); it returns result when that loop ends.
Mutator(st, method, args) ==
  LET r == Original(method, st.arr, args)
      st1 == ObserveArray([st EXCEPT !.arr = r.arr, !.ret = r.result],
                          Inserted(method, args), 1)
  IN [st1 EXCEPT !.push = <<NotifyFrame("list", ToArray(st1.subs["list"]), 0, 0)>>]

\* $set that does not extend the array.
ArraySetNoExtend(st, index, v) ==
  LET st1 == Mutator(st, "splice", <<index, 1, v>>)
  IN [st1 EXCEPT !.ret = <<IF st1.ret = <<>> THEN Undefined ELSE st1.ret[1]>>]

\* Array.prototype.$set(index, val)
ArraySet(st, index, v) ==
  LET a == IF index >= Len(st.arr)
           THEN st.arr \o [i \in 1 .. (index + 1 - Len(st.arr)) |-> Undefined]
           ELSE st.arr
      st1 == Mutator([st EXCEPT !.arr = a], "splice", <<index, 1, v>>)
  IN [st1 EXCEPT !.ret = <<IF st1.ret = <<>> THEN Undefined ELSE st1.ret[1]>>]

\* Array.prototype.$remove(item); indexOf counts from 0 in the source.
ArrayRemove(st, item) ==
  IF Len(st.arr) = 0 THEN [st EXCEPT !.ret = <<Undefined>>]
  ELSE LET index == IndexOf(st.arr, item) - 1
       IN IF index > -1 THEN Mutator(st, "splice", <<index, 1>>)
          ELSE [st EXCEPT !.ret = <<Undefined>>]

\* The calls a script makes on the array: method and arguments.
ArgLists(method) ==
  CASE method \in {"push", "unshift"} ->
         UNION {[1 .. n -> Elems] : n \in 1 .. MaxArgs}
    [] method = "splice" ->
         {<<>>} \cup {<<i>> : i \in -1 .. MaxLen}
                \cup {<<i, c>> : i \in -1 .. MaxLen, c \in 0 .. 2}
                \cup {<<i, c, e>> : i \in -1 .. MaxLen, c \in 0 .. 2, e \in Elems}
    [] OTHER -> {<<>>}

Methods == {"push", "pop", "shift", "unshift", "splice", "sort", "reverse"}

\* A script outside any watcher calls arr[method](...args).
ArrayCall(method, args) ==
  /\ stack = <<>> /\ ops < MaxArrOps
  /\ Len(Original(method, items, args).arr) <= MaxLen
  /\ LET st == Mutator([Cur EXCEPT !.call = <<method, args>>], method, args)
     IN Commit(st) /\ stack' = st.push
  /\ ops' = ops + 1
  /\ UNCHANGED runs

\* A script outside any watcher calls arr.$set(index, v).
ArraySetCall(index, v) ==
  /\ stack = <<>> /\ ops < MaxArrOps
  /\ LET st == ArraySet([Cur EXCEPT !.call = <<"$set", <<index, v>>>>], index, v)
     IN Commit(st) /\ stack' = st.push
  /\ ops' = ops + 1
  /\ UNCHANGED runs

\* A script outside any watcher calls arr.$remove(item).
ArrayRemoveCall(item) ==
  /\ stack = <<>> /\ ops < MaxArrOps
  /\ LET st == ArrayRemove([Cur EXCEPT !.call = <<"$remove", <<item>>>>], item)
     IN Commit(st) /\ stack' = st.push
  /\ ops' = ops + 1
  /\ UNCHANGED runs

\* data: { arr: [...] } is made reactive (defineReactive observes the array), then
\* two watchers over function () { return this.arr } are constructed; the first
\* goes through the batcher.
InitArray ==
  \E a0 \in UNION {[1 .. n -> Elems] : n \in 0 .. MaxInitLen}, o2 \in Options :
    InitWith(NewWatcher(NewWatcher(Observe([Heap0 EXCEPT !.arr = a0], ArrRef, 0),
                                   1, "arr", FALSE, FALSE, FALSE, "any"),
                        2, "arr", o2[1], o2[2], FALSE, "any"))

NextArray ==
  \/ \E method \in Methods : \E args \in ArgLists(method) : ArrayCall(method, args)
  \/ \E index \in 0 .. MaxLen - 1, v \in Elems : ArraySetCall(index, v)
  \/ \E item \in Elems \cup {Undefined} : ArrayRemoveCall(item)
  \/ Tick
  \/ TickCall
  \/ TickReturn
  \/ FlushRunCounted
  \/ FlushEndQueue
  \/ FlushReturn
  \/ NotifyStep
  \/ NotifyReturn
  \/ CbReturn

SpecArray == InitArray /\ [][NextArray]_vars

\* ------------------------------------------------------ shallow updates
DigestFrame(l) == Frame("digest", 0, "", <<>>, 1, 0, 0, l)

\* vm.$set(key, v) with a key the data does not have yet: the Dep of the data
\* object has no subscriber, and set() ends with vm._digest(), whose loop reads
\* this._watchers.length once.
Digest ==
  /\ stack = <<>> /\ ops < MaxOps
  /\ Commit(Cur)
  /\ stack' = <<DigestFrame(Len(vmWatchers))>>
  /\ ops' = ops + 1
  /\ UNCHANGED runs

\* The callback calls vm.$set(key, v) with a new key.
CbDigest ==
  /\ InCb /\ watchers[Top.w].cbKind = "any"
  /\ Top.i < MaxCbOps /\ ops < MaxOps
  /\ Commit(Cur)
  /\ stack' = <<DigestFrame(Len(vmWatchers)),
                [Top EXCEPT !.i = @ + 1, !.d = "", !.nv = 0, !.ov = 0]>> \o Tail(stack)
  /\ ops' = ops + 1
  /\ UNCHANGED runs

\* Vue.prototype._digest: this._watchers[i].update(true); this._watchers[i] is
\* undefined, and the call a TypeError, once a teardown() has shortened the list.
DigestStep ==
  /\ stack # <<>> /\ Top.k = "digest" /\ Top.i <= Top.n
  /\ IF Top.i > Len(vmWatchers)
     THEN Commit(Cur) /\ stack' = Unwind(Tail(stack))
     ELSE LET st == Update(Cur, vmWatchers[Top.i], TRUE)
          IN Commit(st) /\ stack' = Called(st, [Top EXCEPT !.i = @ + 1])
  /\ UNCHANGED <<runs, ops>>

DigestReturn ==
  /\ stack # <<>> /\ Top.k = "digest" /\ Top.i > Top.n
  /\ Commit(Cur)
  /\ stack' = Tail(stack)
  /\ UNCHANGED <<runs, ops>>

\* A script outside any watcher calls arr.push(v).
PushCall(v) == ArrayCall("push", <<v>>)

\* data: { flag: 0, a: 0, b: 0, arr: [] }; the first watcher is over the
\* conditional expression, with or without the option deep, or over
\* function () { return this.arr }; the second is as before.
DigestKinds == {<<"cond", FALSE>>, <<"cond", TRUE>>, <<"arr", FALSE>>}

InitDigest ==
  \E k1 \in DigestKinds, o1 \in Options, o2 \in Options :
    LET st0 == Observe(Heap0, ArrRef, 0)
        st1 == NewWatcher([st0 EXCEPT !.ws[1].deep = k1[2]], 1, k1[1], o1[1], o1[2], FALSE, "any")
    IN InitWith(NewWatcher(st1, 2, "cond", o2[1], o2[2], FALSE, "any"))

NextDigest ==
  \/ \E p \in Props, v \in Values : Set(p, v)
  \/ \E v \in Values : PushCall(v)
  \/ Digest
  \/ \E w \in WatcherIds : TeardownCall(w)
  \/ Tick
  \/ TickCall
  \/ TickReturn
  \/ FlushRun
  \/ FlushEndQueue
  \/ FlushRecurse
  \/ FlushReturn
  \/ NotifyStep
  \/ NotifyReturn
  \/ DigestStep
  \/ DigestReturn
  \/ \E p \in Props, v \in Values : CbSet(p, v)
  \/ CbDigest
  \/ \E w \in WatcherIds : CbTeardown(w)
  \/ CbReturn

SpecDigest == InitDigest /\ [][NextDigest]_vars

\* ------------------------------------------- containers in a property
\* The setter of the key x of plain object c: an accessor (defineReactive, whose
\* val is a primitive) once c is observed, a plain data property before.
SetX(st, c, v) ==
  IF st.obCount[c] > 0
  THEN IF StrictEq(v, st.xs[c]) THEN st
       ELSE [st EXCEPT !.xs[c] = v,
                       !.push = <<[NotifyFrame(XDep[c], ToArray(st.subs[XDep[c]]), v, st.xs[c])
                                     EXCEPT !.n = st.ops + 1]>>]
  ELSE [st EXCEPT !.xs[c] = v]

\* A script outside any watcher assigns c.x = v, c one of the plain objects.
WriteX(c, v) ==
  /\ stack = <<>> /\ ops < MaxOps
  /\ LET st == SetX(Cur, c, v)
     IN Commit(st) /\ stack' = st.push
  /\ ops' = ops + 1
  /\ UNCHANGED runs

\* A script outside any watcher calls push(v) on the array: the interceptor once
\* the array is observed, Array.prototype.push before.
ArrPush(v) ==
  /\ stack = <<>> /\ ops < MaxOps /\ Len(items) < MaxLen
  /\ LET st == IF obCount[ArrRef] > 0 THEN Mutator(Cur, "push", <<v>>)
               ELSE [Cur EXCEPT !.arr = Append(@, v)]
     IN Commit(st) /\ stack' = st.push
  /\ ops' = ops + 1
  /\ UNCHANGED runs

\* data: { flag: 0, a: Obj1, b: 0 } with Obj1 = { x: 0 }; Obj2 = { x: 0 } and the
\* array [] are not observed yet.  Both watchers are over this.a.x.
InitReplace ==
  \E o1 \in Options, o2 \in Options :
    LET st0 == Observe([Heap0 EXCEPT !.val["a"] = Obj1, !.childOb["a"] = TRUE], Obj1, 0)
    IN InitWith(NewWatcher(NewWatcher(st0, 1, "path", o1[1], o1[2], FALSE, "any"),
                           2, "path", o2[1], o2[2], FALSE, "any"))

NextReplace ==
  \/ \E c \in Objects : Set("a", c)
  \/ \E c \in PlainObjects, v \in Values : WriteX(c, v)
  \/ \E v \in Values : ArrPush(v)
  \/ \E w \in WatcherIds : TeardownCall(w)
  \/ Tick
  \/ TickCall
  \/ TickReturn
  \/ FlushRun
  \/ FlushEndQueue
  \/ FlushReturn
  \/ NotifyStep
  \/ NotifyReturn
  \/ CbReturn

SpecReplace == InitReplace /\ [][NextReplace]_vars

\* ------------------------------------------------- reads of a property
NoConvFrame == Frame("noconv", 0, "", <<>>, 0, 0, 0, 0)

\* A script calls withoutConversion(function () { state.a = c }), as v-for does
\* for the alias of a fragment scope: shouldConvert is false while the setter and
\* its notify() run.
SetUnconverted(c) ==
  /\ stack = <<>> /\ ops < MaxOps
  /\ LET st == ReactiveSetter([Cur EXCEPT !.shouldConvert = FALSE], "a", c)
     IN Commit(st) /\ stack' = st.push \o <<NoConvFrame>>
  /\ ops' = ops + 1
  /\ UNCHANGED runs

\* withoutConversion: fn has returned, shouldConvert = true.
ConversionOn ==
  /\ stack # <<>> /\ Top.k = "noconv"
  /\ Commit([Cur EXCEPT !.shouldConvert = TRUE])
  /\ stack' = Tail(stack)
  /\ UNCHANGED <<runs, ops>>

\* A script outside any watcher reads state[p].
Read(p) ==
  /\ stack = <<>>
  /\ Commit(ReactiveGetter([Cur EXCEPT !.call = <<"read", <<p>>>>], p))
  /\ UNCHANGED <<runs, ops, stack>>

NextGetter ==
  \/ \E c \in Objects : Set("a", c)
  \/ \E c \in Objects : SetUnconverted(c)
  \/ ConversionOn
  \/ \E c \in Objects : ObserveCall(c, 0)
  \/ \E p \in Props : Read(p)
  \/ \E v \in Elems : ArrPush(v)
  \/ Tick
  \/ TickCall
  \/ TickReturn
  \/ FlushRun
  \/ FlushEndQueue
  \/ FlushReturn
  \/ NotifyStep
  \/ NotifyReturn
  \/ CbReturn

SpecGetter == InitReplace /\ [][NextGetter]_vars

\* ----------------------------------------------------- computed values
\* computed: { c: function () { return this.flag ? this.a : this.b } } makes the
\* lazy watcher LazyId; then a watcher over function () { return this.c + this.b }
\* is constructed.
InitLazy ==
  \E o2 \in Options :
    InitWith(NewWatcher(NewWatcher(Heap0, LazyId, "cond", FALSE, FALSE, TRUE, "any"),
                        2, "sum", o2[1], o2[2], FALSE, "any"))

\* A script outside any watcher reads vm.c.
Pull ==
  /\ stack = <<>>
  /\ Commit(ComputedGetter(Cur, LazyId))
  /\ UNCHANGED <<runs, ops, stack>>

NextLazy ==
  \/ \E p \in Props, v \in Values : Set(p, v)
  \/ Pull
  \/ Tick
  \/ TickCall
  \/ TickReturn
  \/ FlushRun
  \/ FlushEndQueue
  \/ FlushReturn
  \/ NotifyStep
  \/ NotifyReturn
  \/ \E p \in Props, v \in Values : CbSet(p, v)
  \/ CbReturn

SpecLazy == InitLazy /\ [][NextLazy]_vars

\* The same program with the second watcher over either sum of c and b: reading
\* c first subscribes the lazy watcher to the Dep of b before the second watcher,
\* reading b first subscribes it after.
InitLazyOrders ==
  \E k \in {"sum", "bsum"}, o2 \in Options :
    InitWith(NewWatcher(NewWatcher(Heap0, LazyId, "cond", FALSE, FALSE, TRUE, "any"),
                        2, k, o2[1], o2[2], FALSE, "any"))

SpecLazyOrders == InitLazyOrders /\ [][NextLazy]_vars

\* ------------------------------------------------- assignments of NaN
\* The scripts also assign NaN; the callbacks only return.
ValuesNaN == Values \cup {NaN}

NextNaN ==
  \/ \E p \in Props, v \in ValuesNaN : Set(p, v)
  \/ Tick
  \/ TickCall
  \/ TickReturn
  \/ FlushRun
  \/ FlushEndQueue
  \/ FlushReturn
  \/ NotifyStep
  \/ NotifyReturn
  \/ CbReturn

SpecNaN == Init /\ [][NextNaN]_vars

\* ---------------------------------------------------------------- Cache
\* The keys a least-recently-used cache holds after one more call, least recently
\* used first: put and a get that hits are uses of the key, put of a new key into
\* a full cache and shift drop the least recently used key.
UsedAfter(used, limit, name, key) ==
  LET in == key \in SeqToSet(used)
      moved == Append(SelectSeq(used, LAMBDA k : k # key), key)
  IN CASE name = "put" ->
            IF in THEN moved
            ELSE IF Len(used) = limit /\ used # <<>> THEN Append(Tail(used), key)
            ELSE Append(used, key)
       [] name = "get" -> IF in THEN moved ELSE used
       [] name = "shift" -> IF used = <<>> THEN used ELSE Tail(used)

\* The call returned c: what the caller sees.
CacheReturn(c, name, args) ==
  LET key == IF args = <<>> THEN Undefined ELSE args[1]
  IN Commit([Cur EXCEPT !.cache = [c EXCEPT !.used = UsedAfter(@, c.limit, name, key)],
                        !.call = <<name, args>>,
                        !.ret = IF c.threw THEN <<>> ELSE <<c.ret>>])

\* A script calls cache.put(key, value).
CachePutCall(key, value) ==
  /\ stack = <<>>
  /\ CacheReturn(CachePut([cache EXCEPT !.threw = FALSE], key, value),
                 "put", <<key, value>>)
  /\ UNCHANGED <<runs, ops, stack>>

\* A script calls cache.get(key).
CacheGetCall(key) ==
  /\ stack = <<>>
  /\ CacheReturn(CacheGet([cache EXCEPT !.threw = FALSE], key, FALSE), "get", <<key>>)
  /\ UNCHANGED <<runs, ops, stack>>

\* A script calls cache.shift().
CacheShiftCall ==
  /\ stack = <<>>
  /\ CacheReturn(CacheShift([cache EXCEPT !.threw = FALSE]), "shift", <<>>)
  /\ UNCHANGED <<runs, ops, stack>>

InitCache == \E limit \in 1 .. MaxLimit : InitWith([Heap0 EXCEPT !.cache = NewCache(limit)])

NextCache ==
  \/ \E key \in CacheKeys, value \in Values : CachePutCall(key, value)
  \/ \E key \in CacheKeys : CacheGetCall(key)
  \/ CacheShiftCall

SpecCache == InitCache /\ [][NextCache]_vars

\* get() of a deep watcher calls traverse(value): seen = seenObjects; seen.clear().
TraverseCall ==
  /\ stack = <<>> /\ trav.status = "idle"
  /\ Commit([Cur EXCEPT !.trav = Traverse([trav EXCEPT !.seen = {}, !.status = "run"], 1)])
  /\ UNCHANGED <<runs, ops, stack>>

\* One iteration of the loop of the innermost traverse(): the recursive call on the
\* next key, or the return when no key is left.
TraverseStep ==
  /\ trav.status = "run" /\ trav.stk # <<>>
  /\ LET top == Head(trav.stk)
         t == IF top.rest = <<>> THEN [trav EXCEPT !.stk = Tail(@)]
              ELSE Traverse([trav EXCEPT !.stk[1].rest = Tail(@)], Head(top.rest))
     IN Commit([Cur EXCEPT !.trav = t])
  /\ UNCHANGED <<runs, ops, stack>>

\* The outermost traverse() has returned.
TraverseReturn ==
  /\ trav.status = "run" /\ trav.stk = <<>>
  /\ Commit([Cur EXCEPT !.trav.status = "done"])
  /\ UNCHANGED <<runs, ops, stack>>

InitTraverse ==
  \E edges \in SUBSET (Nodes \X Nodes), observed \in [Nodes -> BOOLEAN] :
    InitWith([Heap0 EXCEPT !.trav = NewTrav(edges, observed)])

NextTraverse ==
  \/ TraverseCall
  \/ TraverseStep
  \/ TraverseReturn

SpecTraverse == InitTraverse /\ [][NextTraverse]_vars

\* ------------------------------------------------- two-way directive
\* The directive of the model is bound to the expression a; its watcher is
\* watcher 1, whose callback is the _update wrapper of _bind.
LockFrame == Frame("lock", 0, "", <<>>, 0, 0, 0, 0)

\* A DOM listener calls dir.set(v): _withLock sets _locked and calls
\* this._watcher.set(v), which assigns state.a = v.
DirSet(v) ==
  /\ stack = <<>> /\ ops < MaxOps
  /\ LET st == ReactiveSetter([Cur EXCEPT !.dir.locked = TRUE], "a", v)
     IN Commit(st) /\ stack' = st.push \o <<LockFrame>>
  /\ ops' = ops + 1
  /\ UNCHANGED runs

\* _withLock after fn has returned: nextTick(function () { self._locked = false }).
WithLockEnd ==
  /\ stack # <<>> /\ Top.k = "lock"
  /\ Commit(NextTick(Cur, "unlock"))
  /\ stack' = Tail(stack)
  /\ UNCHANGED <<runs, ops>>

\* nextTickHandler: copies[i]() is the unlock callback of _withLock.
TickUnlock ==
  /\ stack # <<>> /\ Top.k = "tick" /\ Top.i <= Len(Top.snap)
  /\ Top.snap[Top.i] = "unlock"
  /\ Commit([Cur EXCEPT !.dir.locked = FALSE])
  /\ stack' = <<[Top EXCEPT !.i = @ + 1]>> \o Tail(stack)
  /\ UNCHANGED <<runs, ops>>

\* The callback of the directive's watcher, if (!dir._locked) dir.update(val,
\* oldVal), and its return into run(); call records the call of dir.update.
CbDir ==
  /\ InCb /\ watchers[Top.w].cbKind = "dir"
  /\ Commit([Cur EXCEPT !.ws[Top.w].queued = FALSE, !.ws[Top.w].shallow = FALSE,
                        !.call = IF dir.locked THEN <<>>
                                 ELSE <<"update", <<Top.nv, Top.ov>>>>])
  /\ stack' = Tail(stack)
  /\ UNCHANGED <<runs, ops>>

\* data {flag: 0, a: 0, b: 0}; the directive's watcher goes through the batcher;
\* the second watcher is a $watch of the same expression.
InitLock ==
  \E o2 \in Options :
    InitWith(NewWatcher(NewWatcher(Heap0, 1, "prop", FALSE, FALSE, FALSE, "dir"),
                        2, "prop", o2[1], o2[2], FALSE, "any"))

NextLock ==
  \/ \E v \in Values : Set("a", v)
  \/ \E v \in Values : DirSet(v)
  \/ WithLockEnd
  \/ Tick
  \/ TickCall
  \/ TickUnlock
  \/ TickReturn
  \/ FlushRun
  \/ FlushEndQueue
  \/ FlushReturn
  \/ NotifyStep
  \/ NotifyReturn
  \/ CbDir
  \/ CbReturn

SpecLock == InitLock /\ [][NextLock]_vars

\* ------------------------------------------------- filters
\* The first watcher is over a | strict, the second over the conditional; scripts
\* also read properties outside any evaluation.
InitFilters ==
  \E o1 \in Options, o2 \in Options :
    InitWith(NewWatcher(NewWatcher(Heap0, 1, "filtered", o1[1], o1[2], FALSE, "any"),
                        2, "cond", o2[1], o2[2], FALSE, "any"))

NextFilters ==
  \/ Next
  \/ \E p \in Props : Read(p)

SpecFilters == InitFilters /\ [][NextFilters]_vars

\* ------------------------------------------------- instance life cycle
DirIds == 1 .. MaxDirs

\* _compile(el). The copy in part_000 returns after the link phase, before
\* this._unlinkFn is assigned; the copy in part_003 runs to the end.
Compile ==
  /\ stack = <<>> /\ ~inst.el /\ inst.calls = 0
  /\ LET v1 == [inst EXCEPT !.el = TRUE, !.hooks = Append(@, "beforeCompile")]
         v2 == [v1 EXCEPT !.linked = 1 .. inst.nDirs, !.bound = 1 .. inst.nDirs,
                          !.active = @ \cup (1 .. inst.nDirs)]
         v3 == [v2 EXCEPT !.unlinkFn = TRUE, !.isCompiled = TRUE,
                          !.hooks = Append(@, "compiled")]
     IN Commit([Cur EXCEPT !.inst = IF inst.vPre THEN v1
                                  ELSE IF inst.build = "source" THEN v2 ELSE v3])
  /\ UNCHANGED <<runs, ops, stack>>

\* _cleanup(). A _destroy re-entered from the 'destroyed' hook finds _isDestroyed
\* set and changes nothing.
Cleanup(v) ==
  IF v.isDestroyed THEN v
  ELSE [v EXCEPT !.el = FALSE, !.watcherList = FALSE, !.isDestroyed = TRUE,
                 !.hooks = Append(@, "destroyed"), !.cleanups = @ + 1]

\* cleanupIfPossible of the _destroy call c.
CleanupIfPossible(v, c) ==
  IF v.closures[c].destroyReady /\ ~v.closures[c].pendingRemoval
     /\ ~v.closures[c].deferCleanup
  THEN Cleanup(v) ELSE v

\* A hook of a _destroy in progress is running: 'beforeDestroy' of the instance,
\* or a hook of its child while the children are destroyed.
InHook ==
  /\ inst.stk # <<>>
  /\ Head(inst.stk).pc = "children" => inst.hasChild

\* _destroy(remove, deferCleanup), called by a script or from a hook, up to the
\* 'beforeDestroy' hook. With remove, $remove calls back at once (sync) or when
\* the leave transition has ended.
DestroyCall(remove, deferCleanup, sync) ==
  /\ stack = <<>> /\ inst.calls < MaxDestroy
  /\ inst.stk = <<>> \/ InHook
  /\ LET c == inst.calls + 1
         v1 == [inst EXCEPT !.calls = c, !.undeferred = @ \/ ~deferCleanup]
     IN Commit([Cur EXCEPT !.inst =
          IF inst.isBeingDestroyed
          THEN IF deferCleanup THEN v1 ELSE Cleanup(v1)
          ELSE [v1 EXCEPT !.closures[c] =
                            [pendingRemoval |-> remove /\ inst.el /\ ~sync,
                             destroyReady |-> FALSE, deferCleanup |-> deferCleanup],
                          !.hooks = Append(@, "beforeDestroy"),
                          !.stk = <<[c |-> c, pc |-> "beforeDestroy"]>> \o @]])
  /\ UNCHANGED <<runs, ops, stack>>

\* The 'beforeDestroy' hook has returned: this._isBeingDestroyed = true, then
\* i = this.$children.length, a TypeError once _cleanup has run.
DestroyChildren ==
  /\ inst.stk # <<>> /\ Head(inst.stk).pc = "beforeDestroy"
  /\ Commit([Cur EXCEPT !.inst =
        IF inst.isDestroyed
        THEN [inst EXCEPT !.isBeingDestroyed = TRUE, !.stk = <<>>]
        ELSE [inst EXCEPT !.isBeingDestroyed = TRUE, !.stk[1].pc = "children"]])
  /\ UNCHANGED <<runs, ops, stack>>

\* The children are destroyed: this._unlinkFn(), the loop over this._watchers (a
\* TypeError once _cleanup has run), destroyReady = true, cleanupIfPossible().
DestroyFinish ==
  /\ inst.stk # <<>> /\ Head(inst.stk).pc = "children"
  /\ LET c == Head(inst.stk).c
         v1 == IF inst.unlinkFn
               THEN [inst EXCEPT !.bound = {}, !.active = @ \ inst.bound] ELSE inst
         v2 == [v1 EXCEPT !.active = {}, !.closures[c].destroyReady = TRUE,
                          !.stk = Tail(@)]
     IN Commit([Cur EXCEPT !.inst =
          IF ~inst.watcherList THEN [v1 EXCEPT !.stk = <<>>]
          ELSE CleanupIfPossible(v2, c)])
  /\ UNCHANGED <<runs, ops, stack>>

\* The callback given to $remove by the _destroy call c fires.
RemovalDone(c) ==
  /\ stack = <<>> /\ inst.stk = <<>> /\ inst.closures[c].pendingRemoval
  /\ Commit([Cur EXCEPT !.inst =
        CleanupIfPossible([inst EXCEPT !.closures[c].pendingRemoval = FALSE], c)])
  /\ UNCHANGED <<runs, ops, stack>>

InitLifecycle ==
  \E build \in {"source", "bundle"}, vPre \in BOOLEAN, hasChild \in BOOLEAN,
     nDirs \in DirIds :
    InitWith([Heap0 EXCEPT !.inst = NewVm(build, vPre, hasChild, nDirs)])

NextLifecycle ==
  \/ Compile
  \/ \E remove \in BOOLEAN, deferCleanup \in BOOLEAN, sync \in BOOLEAN :
       DestroyCall(remove, deferCleanup, sync)
  \/ DestroyChildren
  \/ DestroyFinish
  \/ \E c \in 1 .. MaxDestroy : RemovalDone(c)

SpecLifecycle == InitLifecycle /\ [][NextLifecycle]_vars

\* ------------------------------------------------------------ properties
\* The step calls the callback of w.
CbCalled(w) ==
  /\ Len(stack') = Len(stack) + 1
  /\ Head(stack').k = "cb" /\ Head(stack').w = w

\* The step is the setter of d storing a new value (it then calls notify()).
Wrote(d) == val'[d] # val[d]

\* The flush is about to call run() on w.
RunsNow(w) ==
  stack # <<>> /\ Top.k = "flush" /\ Top.i <= Len(FlushQ) /\ FlushQ[Top.i] = w

\* notify() is about to call update() on w.
UpdatesNow(w) ==
  stack # <<>> /\ Top.k = "notify" /\ Top.i <= Len(Top.snap) /\ Top.snap[Top.i] = w

InQueues(w) == w \in SeqToSet(queue) \cup SeqToSet(userQueue)

\* C1 (dependency precision): a watcher is subscribed to a Dep only if its most
\* recent evaluation read that property, so the snapshot notify() takes when a
\* property is written holds no watcher whose last evaluation did not read it:
\* the write calls update() on none of them, neither run nor queue entry follows.
C1_DependencyPrecision ==
  /\ \A d \in Props, w \in WatcherIds :
        w \in SeqToSet(subs[d]) => d \in watchers[w].reads
  /\ \A k \in 1 .. Len(stack) :
        (stack[k].k = "notify" /\ stack[k].i = 1)
          => \A j \in 1 .. Len(stack[k].snap) : stack[k].d \in watchers[stack[k].snap[j]].reads

\* A property was written, notify() has called every update(), and an active
\* watcher that did not read the property is neither queued nor was it run.
C1_Witness ==
  /\ stack # <<>> /\ Top.k = "notify" /\ Top.i > Len(Top.snap) /\ Top.snap # <<>>
  /\ \E w \in WatcherIds :
        /\ watchers[w].active /\ Top.d \notin watchers[w].reads
        /\ has[w] = Null /\ ~watchers[w].queued

Selected == IF Truthy(val["flag"]) THEN "a" ELSE "b"
Unselected == IF Truthy(val["flag"]) THEN "b" ELSE "a"

\* The last evaluation of the watcher over flag ? a : b took the branch flag selects now.
UpToDate(w) ==
  /\ watchers[w].active /\ watchers[w].getter = "cond"
  /\ watchers[w].reads = {"flag", Selected}

\* C2 (dependency re-derivation): once the watcher over flag ? a : b has been
\* evaluated with the present flag, a write to the other branch does not reach it
\* (it is not in the snapshot of that notify), a write to the selected branch does
\* (it is in the snapshot, update() runs a sync watcher or queues the others), and
\* the run of the flush calls the callback with the new value of the branch.
C2_Rederivation ==
  [][\A w \in WatcherIds : UpToDate(w) =>
        /\ Wrote(Unselected) => w \notin SeqToSet(Head(stack').snap)
        /\ Wrote(Selected) => w \in SeqToSet(Head(stack').snap)
        /\ (UpdatesNow(w) /\ ~watchers[w].sync) => (has'[w] # Null /\ InQueues(w)')
        /\ ((RunsNow(w) \/ (UpdatesNow(w) /\ watchers[w].sync))
               /\ val[Selected] # watchers[w].value)
             => (CbCalled(w) /\ Head(stack').nv = val[Selected]
                             /\ Head(stack').ov = watchers[w].value)]_vars

\* The flush calls the callback of a queued watcher over flag ? a : b whose previous
\* evaluation had already selected a: a was written after the re-run.
C2_Witness ==
  /\ InCb /\ Len(stack) >= 2 /\ stack[2].k = "flush"
  /\ watchers[Top.w].getter = "cond" /\ ~watchers[Top.w].sync
  /\ Top.snap = <<"flag", "a">> /\ Truthy(val["flag"])
  /\ Top.nv = val["a"] /\ Top.nv # Top.ov /\ Top.i = 0

Occurrences(seq, w) == Cardinality({i \in 1 .. Len(seq) : seq[i] = w})

\* The entries the flush in progress has not run yet.
PendingEntries ==
  IF Top.d = "queue"
  THEN SubSeq(queue, Top.i, Len(queue)) \o userQueue
  ELSE SubSeq(userQueue, Top.i, Len(userQueue)) \o queue

\* C3 (batching/deduplication): the update() calls a non-sync watcher gets before
\* the flush runs it (one or more) leave exactly one entry for it; the callback of
\* a non-sync watcher is called by the run of its entry only, once, when the value
\* of the expression after the last write differs from the stored one, with that
\* value as the new value and the stored one as the old value.
C3_Batching ==
  [][\A w \in WatcherIds :
        /\ RunsNow(w) =>
              /\ watchers[w].trig >= 1
              /\ Occurrences(PendingEntries, w) = 1
              /\ (watchers[w].active
                    /\ ~StrictEq(GetterValue(watchers[w].getter, val), watchers[w].value))
                   => /\ CbCalled(w)
                      /\ Head(stack').nv = GetterValue(watchers[w].getter, val)
                      /\ Head(stack').ov = watchers[w].value
                      /\ Head(stack').n = watchers[w].trig
              /\ StrictEq(GetterValue(watchers[w].getter, val), watchers[w].value)
                   => ~CbCalled(w)
        /\ (CbCalled(w) /\ ~watchers[w].sync) => RunsNow(w)]_vars

\* The flush calls the callback of a watcher that two or more update() calls queued.
C3_Witness ==
  /\ InCb /\ Top.i = 0 /\ Len(stack) >= 2 /\ stack[2].k = "flush"
  /\ Top.n >= 2 /\ Top.nv # Top.ov

\* C4 (recursive settlement): when the top-level flushBatcherQueue call returns,
\* every watcher that update() queued, before the flush or from a callback run by
\* it, has had run() called since; none is left in a queue or marked in has.
C4_RecursiveSettlement ==
  [][(stack # <<>> /\ Top.k = "flush" /\ Len(stack') < Len(stack))
       => \A w \in WatcherIds :
            watchers'[w].trig = 0 /\ has'[w] = Null /\ ~InQueues(w)']_vars

\* A recursive pass of the flush calls the callback of a watcher of the primary
\* queue: a callback of the user queue dirtied it during the pass before.
C4_Witness ==
  /\ InCb /\ Len(stack) >= 2 /\ stack[2].k = "flush"
  /\ stack[2].n >= 1 /\ stack[2].d = "queue"
  /\ ~watchers[Top.w].user /\ ~watchers[Top.w].sync

\* C5 (callback error isolation), as claimed: whenever no code is running, the
\* scheduler is idle (queues empty, nothing marked, not waiting) or the flush
\* that will run the queued watchers is in the callbacks of nextTick.
C5_AsClaimed ==
  stack = <<>> =>
    \/ ("flushBatcherQueue" \in SeqToSet(callbacks) /\ pending /\ waiting)
    \/ /\ queue = <<>> /\ userQueue = <<>> /\ ~waiting
       /\ \A w \in WatcherIds : has[w] = Null

\* C6 (evaluation error recovery), as claimed: the run of a watcher whose getter
\* throws leaves its value as it was and does not call its callback.
C6_AsClaimed ==
  [][\A w \in WatcherIds :
        (RunsNow(w) /\ watchers[w].active /\ GetterThrows(watchers[w].getter, val))
          => (watchers'[w].value = watchers[w].value /\ ~CbCalled(w))]_vars

\* C7 (teardown silences the callback): the callback of a watcher is called only
\* while the watcher is active, and a watcher that teardown() made inactive stays
\* inactive: no step after the teardown calls its callback.
C7_TeardownSilences ==
  [][\A w \in WatcherIds :
        /\ CbCalled(w) => watchers[w].active
        /\ ~watchers[w].active => ~watchers'[w].active]_vars

\* The flush has just run the entry of a watcher that was torn down while it was
\* queued: run() was a no-op (queued is still set, no callback on the stack).
C7_Witness ==
  /\ stack # <<>> /\ Top.k = "flush" /\ Top.i > 1 /\ Top.i - 1 <= Len(FlushQ)
  /\ LET w == FlushQ[Top.i - 1]
     IN ~watchers[w].active /\ watchers[w].queued /\ has[w] = Null

C9_AsClaimed == \A w \in WatcherIds : runs[w] <= MaxUpdateCount + 1

HeapVars == <<val, subs, target, watchers, vmWatchers, queue, userQueue, has,
              circular, waiting, callbacks, pending, items, obCount, vms, shouldConvert>>

\* C10 (equality short-circuit): a setter called with a value === the stored one
\* changes nothing and calls no notify(); every notify() comes from a setter that
\* stored a value different from the one it replaced.
C10_EqualityShortCircuit ==
  [][/\ \A p \in Props, v \in Values :
          ((Set(p, v) \/ CbSet(p, v)) /\ StrictEq(v, val[p]))
            => (UNCHANGED HeapVars /\ Len(stack') = Len(stack))
     /\ (Len(stack') = Len(stack) + 1 /\ Head(stack').k = "notify")
          => /\ ~StrictEq(Head(stack').nv, Head(stack').ov)
             /\ val[Head(stack').d] = Head(stack').ov
             /\ val'[Head(stack').d] = Head(stack').nv]_vars

\* A callback has assigned a property its present value: the callback is still the
\* running frame and the subscriber of the property is not queued.
C10_Witness ==
  /\ InCb /\ Top.i >= 1 /\ Top.d \in Props
  /\ StrictEq(Top.nv, Top.ov) /\ val[Top.d] = Top.nv
  /\ \E w \in SeqToSet(subs[Top.d]) :
        ~watchers[w].sync /\ has[w] = Null /\ ~watchers[w].queued

\* C11 (NaN short-circuit), as claimed: assigning NaN to a property whose value is
\* NaN changes nothing and does not call notify() on the property's Dep.
C11_AsClaimed ==
  [][\A p \in Props :
        (val[p] = NaN /\ Set(p, NaN))
          => (UNCHANGED HeapVars /\ Len(stack') = Len(stack))]_vars

\* A script has just made a call on the array (every such call counts in ops).
ArrayCalled == stack = <<>> /\ ops' = ops + 1

\* The step starts one notify() on the Dep of the array's Observer.
NotifiesArray ==
  /\ Len(stack') = 1 /\ Head(stack').k = "notify" /\ Head(stack').d = "list"
  /\ Head(stack').i = 1 /\ Head(stack').snap = subs["list"]

\* C12 (array structural notification): for a non-sync watcher over
\* function () { return this.arr }: every call on the array that notifies (push,
\* splice, sort, $set and the others) has it in the snapshot, update() queues it,
\* and however many calls were made before the flush there is one entry for it,
\* whose run is its only run in the flush and calls the callback with the array.
C12_ArrayNotification ==
  [][\A w \in WatcherIds : (watchers[w].getter = "arr" /\ ~watchers[w].sync) =>
        /\ ArrayCalled =>
              \/ (stack' = <<>> /\ items' = items)
              \/ (NotifiesArray /\ w \in SeqToSet(Head(stack').snap))
        /\ UpdatesNow(w) => (has'[w] # Null /\ InQueues(w)')
        /\ RunsNow(w) =>
              /\ watchers[w].trig >= 1
              /\ Occurrences(PendingEntries, w) = 1
              /\ runs[w] = 0
              /\ CbCalled(w)
              /\ Head(stack').nv = ArrRef /\ Head(stack').n = watchers[w].trig
        /\ CbCalled(w) => RunsNow(w)
        /\ runs'[w] <= 1]_vars

\* The flush calls the callback of the watcher that two calls on the array queued.
C12_Witness ==
  /\ InCb /\ Len(stack) >= 2 /\ stack[2].k = "flush"
  /\ watchers[Top.w].getter = "arr" /\ ~watchers[Top.w].sync
  /\ Top.n >= 2 /\ Top.nv = ArrRef /\ Top.ov = ArrRef /\ runs[Top.w] = 1

\* C19 (array interceptor): a call of a wrapped method leaves in the array what the
\* native method leaves, returns what it returns, makes an Observer for exactly the
\* objects among the inserted elements that had none (all arguments of push and
\* unshift, the arguments after the first two of splice, nothing for pop, shift,
\* sort and reverse) and starts exactly one notify() on the array Observer's Dep.
C19_ArrayInterceptor ==
  [][(ArrayCalled /\ call'[1] \in Methods) =>
           LET method == call'[1]
               args == call'[2]
               new == CASE method \in {"push", "unshift"} -> SeqToSet(args)
                        [] method = "splice" -> {args[i] : i \in 3 .. Len(args)}
                        [] OTHER -> {}
           IN /\ items' = Original(method, items, args).arr
              /\ ret' = Original(method, items, args).result
              /\ \A o \in Objects :
                    obCount'[o] = IF o \in new /\ obCount[o] = 0 THEN 1 ELSE obCount[o]
              /\ NotifiesArray]_vars

\* A call has just put an object that had no Observer into the array and has
\* returned the element it took out; notify() is about to start.
C19_Witness ==
  /\ stack # <<>> /\ Top.k = "notify" /\ Top.d = "list" /\ Top.i = 1 /\ ops = 1
  /\ ret = <<Obj2>> /\ obCount[Obj1] = 1 /\ obCount[Obj2] = 1
  /\ Obj1 \in SeqToSet(items) /\ Obj2 \notin SeqToSet(items)

C15_AsClaimed ==
  [][\A o \in Objects : (call' # <<>> /\ call'[1] = "observe" /\ call'[2][1] = o) =>
        /\ obCount'[o] <= 1
        /\ ret' = <<1>>
        /\ obCount[o] > 0 => UNCHANGED HeapVars]_vars

\* C15 as amended: no object ever has a second Observer made for it; a call of
\* observe on an object returns its one Observer, except that a call inside
\* withoutConversion on an object that has none makes none and returns undefined;
\* a call on an object that has its Observer makes no Observer and changes only
\* the Observer's vms, to which the owner, when one is given, is appended.
C15_ObserveOnce ==
  [][/\ \A o \in Objects : obCount'[o] <= 1
     /\ \A o \in Objects : (call' # <<>> /\ call'[1] = "observe" /\ call'[2][1] = o) =>
          /\ ret' = IF obCount[o] > 0 \/ shouldConvert THEN <<1>> ELSE <<Undefined>>
          /\ obCount[o] > 0 =>
                /\ obCount' = obCount /\ items' = items /\ subs' = subs
                /\ shouldConvert' = shouldConvert
                /\ vms' = [vms EXCEPT ![o] = IF call'[2][2] # 0
                                              THEN Append(@, call'[2][2]) ELSE @]]_vars

\* observe(o, vm) has just been called on an object that had its Observer and one
\* owner: it returned the Observer and the owner is listed a second time.
C15_Witness ==
  /\ call # <<>> /\ call[1] = "observe" /\ call[2][2] # 0 /\ ret = <<1>>
  /\ obCount[call[2][1]] = 1 /\ Len(vms[call[2][1]]) = 2

\* The step evaluates the getter of w or calls its callback or run().
Ran(w) ==
  \/ CbCalled(w)
  \/ watchers'[w].trig < watchers[w].trig
  \/ watchers'[w].reads # watchers[w].reads
  \/ watchers'[w].deps # watchers[w].deps
  \/ (watchers'[w].value # watchers[w].value /\ watchers'[w].active)

\* C14 (deferred run): a watcher that is not sync is run (getter, callback) only by
\* the loop of the flush, and the flush is only ever called by nextTickHandler from
\* the event loop: when it runs a watcher no assignment is in progress, so the
\* assignment that dirtied the watcher has returned without running it.
C14_DeferredRun ==
  [][/\ \A w \in WatcherIds : (Ran(w) /\ ~watchers[w].sync) =>
          (RunsNow(w) /\ stack = <<Top, stack[Len(stack)]>>
                      /\ stack[Len(stack)].k = "tick")
     /\ \A k \in 1 .. Len(stack') :
          stack'[k].k = "flush" => (k = Len(stack') - 1 /\ stack'[k + 1].k = "tick")
     /\ \A w \in WatcherIds : (UpdatesNow(w) /\ ~watchers[w].sync) =>
          (~Ran(w) /\ (has[w] = Null => has'[w] # Null)
                   /\ (~waiting => "flushBatcherQueue" \in SeqToSet(callbacks')))]_vars

\* An assignment made by a script has called every update() and is about to
\* return: the watcher it dirtied is queued, the flush is in the callbacks of
\* nextTick, and the watcher still holds the value from before the assignment.
C14_Witness ==
  /\ Len(stack) = 1 /\ Top.k = "notify" /\ Top.i > Len(Top.snap) /\ Top.d \in Props
  /\ pending /\ "flushBatcherQueue" \in SeqToSet(callbacks)
  /\ \E w \in SeqToSet(Top.snap) :
        /\ watchers[w].active /\ ~watchers[w].sync /\ has[w] # Null
        /\ watchers[w].getter = "cond"
        /\ GetterValue("cond", val) # watchers[w].value

\* C16 (priority bands), as claimed: the flush runs user watchers from userQueue
\* only, and when it runs a user watcher no internal watcher that the same
\* assignment dirtied is still waiting in the primary queue.
C16_AsClaimed ==
  [][\A u \in WatcherIds : (RunsNow(u) /\ watchers[u].user /\ watchers[u].active) =>
        /\ Top.d = "userQueue"
        /\ \A w \in WatcherIds :
              (~watchers[w].user /\ ~watchers[w].sync /\ watchers[w].active
                 /\ has[w] # Null /\ watchers[w].by # 0)
                => watchers[w].by # watchers[u].by]_vars

\* C13 (lazy/computed semantics): a lazy watcher is never in a scheduler queue;
\* while it is dirty (after construction, after update()) its getter has not been
\* evaluated since, and while it is not dirty its getter has been evaluated exactly
\* once since it last became dirty, however many times the value was pulled.
C13_LazySemantics ==
  \A w \in WatcherIds : watchers[w].lazy =>
    /\ has[w] = Null /\ ~InQueues(w) /\ ~watchers[w].queued
    /\ watchers[w].dirty => watchers[w].evals = 0
    /\ ~watchers[w].dirty => (watchers[w].evals = 1 /\ watchers[w].pulls >= 1)

\* The computed value was invalidated by an assignment and has been pulled twice
\* or more since: it was evaluated once.
C13_Witness ==
  /\ ops >= 1 /\ watchers[LazyId].lazy /\ ~watchers[LazyId].dirty
  /\ watchers[LazyId].pulls >= 2 /\ watchers[LazyId].evals = 1
  /\ watchers[LazyId].value = GetterValue("cond", val) /\ watchers[LazyId].value # 0

\* C17 (nested evaluation restores the recorder): when the last evaluation of the
\* lazy watcher was made inside the evaluation of watcher w (current = w), the
\* read of b that w's getter makes after the read of c was recorded: w depends on
\* b and is subscribed to it, as it is to the deps of the lazy watcher; and
\* Dep.target is null again whenever no watcher is being evaluated.
C17_NestedRestore ==
  /\ target = Null
  /\ \A w \in WatcherIds :
        (watchers[w].active /\ ~watchers[w].lazy /\ watchers[LazyId].current = w) =>
          /\ "b" \in watchers[w].depIds /\ w \in SeqToSet(subs["b"])
          /\ SeqToSet(watchers[LazyId].deps) \subseteq watchers[w].depIds

\* The run of watcher 2 evaluated the computed value (it was dirty, flag had been
\* set) and then read b, which the computed value does not read: watcher 2
\* depends on b and on a.
C17_Witness ==
  /\ watchers[LazyId].current = 2 /\ ~watchers[LazyId].dirty /\ ops >= 1
  /\ watchers[LazyId].deps = <<"flag", "a">>
  /\ watchers[2].depIds = {"flag", "a", "b"} /\ 2 \in SeqToSet(subs["b"])

CacheContents(c) == {k \in CacheKeys : c.keymap[k] # Undefined}

\* C21 (LRU eviction): put(key, value) of a new key into a Cache whose size equals
\* its limit removes and returns exactly the least recently used entry, a use being
\* a put or a get of the key; every other put returns undefined; the most recently
\* used entries are the ones kept.
C21_AsClaimed ==
  [][\A key \in CacheKeys, value \in Values :
       call' = <<"put", <<key, value>>>> =>
         /\ ~cache'.threw
         /\ IF cache.keymap[key] = Undefined /\ cache.size = cache.limit
            THEN /\ cache.used # <<>>
                 /\ ret' = <<Head(cache.used)>>
                 /\ cache'.keymap[Head(cache.used)] = Undefined
            ELSE ret' = <<Undefined>>
         /\ CacheContents(cache') = SeqToSet(cache'.used)]_vars

\* C22 (shift): shift() removes the oldest entry and returns it, or returns
\* undefined when the cache is empty; this holds for every size, a cache of exactly
\* one entry included, which is empty afterwards.
C22_AsClaimed ==
  [][call' = <<"shift", <<>>>> =>
       /\ ~cache'.threw
       /\ IF cache.size = 0
          THEN ret' = <<Undefined>> /\ cache'.size = 0
          ELSE /\ cache.used # <<>>
               /\ ret' = <<Head(cache.used)>>
               /\ cache'.keymap[Head(cache.used)] = Undefined
               /\ cache'.size = cache.size - 1
               /\ cache'.size = 0 => cache'.head = Undefined]_vars

\* get() of w has started and not returned.
Evaluating(w) == \E i \in 1 .. Len(stack) : stack[i].k = "get" /\ stack[i].w = w

\* C23 (subscription consistency): after every completed evaluation of a watcher,
\* for every Dep d the watcher is in d's subscriber list exactly once if d was read
\* during that evaluation and not at all otherwise; deps holds exactly those Deps
\* and newDeps/newDepIds are empty.  Stated for the watchers that are active (no
\* teardown() has followed the evaluation).
C23_AsClaimed ==
  \A w \in WatcherIds :
    watchers[w].active /\ ~Evaluating(w) =>
      /\ \A d \in Deps :
           Occurrences(subs[d], w) = IF d \in watchers[w].reads THEN 1 ELSE 0
      /\ SeqToSet(watchers[w].deps) = watchers[w].reads
      /\ watchers[w].newDeps = <<>> /\ watchers[w].newDepIds = {}

\* C24 (teardown unsubscribes completely): whenever teardown() is called on an
\* active watcher (idle, queued, or while its own evaluation is in progress),
\* afterwards no Dep's subscriber list contains the watcher, the watcher is
\* inactive and it is no longer in its owner's watcher list (the owner is not
\* being destroyed).
C24_AsClaimed ==
  [][\A w \in WatcherIds :
       watchers[w].active /\ ~watchers'[w].active =>
         /\ \A d \in Deps : w \notin SeqToSet(subs'[d])
         /\ w \notin SeqToSet(vmWatchers')]_vars

\* C25 (notify() works on a snapshot): the watchers update() is called on by one
\* notify() are those of the subscriber list when notify() started, each once and
\* in list order, whatever the update() calls do to the live list; notify()
\* returns after the last of them, and a watcher subscribed meanwhile is not
\* updated by it.
C25_NotifySnapshot ==
  [][stack # <<>> /\ Top.k = "notify" =>
       IF Top.i <= Len(Top.snap)
       THEN /\ call' = <<"update", <<Top.snap[Top.i]>>>>
            /\ Len(stack') >= Len(stack)
            /\ stack'[Len(stack') - Len(stack) + 1] = [Top EXCEPT !.i = @ + 1]
       ELSE stack' = Tail(stack)]_vars

\* update() has just been called, by a notify() still in progress, on a watcher
\* that an earlier update() of the same notify() took out of the live list.
C25_Witness ==
  /\ stack # <<>> /\ Top.k = "notify" /\ Top.i > 2
  /\ call # <<>> /\ call[1] = "update"
  /\ call[2][1] = Top.snap[Top.i - 1]
  /\ call[2][1] \notin SeqToSet(subs[Top.d])

\* run() of w is in progress (in its getter or in its callback).
Running(w) == \E i \in 1 .. Len(stack) : stack[i].k \in {"get", "cb"} /\ stack[i].w = w

\* A flush is in progress and the loop of runBatcherQueue has yet to reach an
\* entry of w: one at or after its index in the queue it is running, or any entry
\* of the other queue.
Pending(w) ==
  \E i \in 1 .. Len(stack) :
    /\ stack[i].k = "flush"
    /\ LET q == IF watchers[w].user THEN userQueue ELSE queue
           mine == stack[i].d = (IF watchers[w].user THEN "userQueue" ELSE "queue")
       IN \E j \in 1 .. Len(q) : q[j] = w /\ (mine => j >= stack[i].i)

\* C26 (re-scheduling during a run is not lost): runBatcherQueue runs its queue in
\* index order and clears the watcher's marker just before run(); a batched
\* watcher on which update() is called while its own run() is in progress (from
\* its getter or its callback) is marked and appended again, behind the index of
\* the loop; and the flush returns only when no marked watcher is left, so the
\* appended entry is run in the same top-level flush.
C26_RescheduleNotLost ==
  [][\A w \in WatcherIds :
       /\ RunsNow(w) => has'[w] = Null /\ runs'[w] = runs[w] + 1
       /\ (Running(w) /\ UpdatesNow(w) /\ ~watchers[w].sync) =>
            has'[w] # Null /\ Pending(w)'
       /\ (has[w] # Null /\ Pending(w) /\ ~RunsNow(w) /\ stack' # <<>>
            /\ (\E i \in 1 .. Len(stack') : stack'[i].k = "flush")) =>
            has'[w] # Null /\ Pending(w)']_vars

\* After a single assignment by a script, the watcher whose getter assigns has run
\* twice in one flush: its getter's assignment marked it again during the first run.
C26_Witness ==
  \E w \in WatcherIds :
    /\ watchers[w].getter = "writer" /\ ~watchers[w].sync
    /\ runs[w] = 2 /\ ops = 1

\* C27 (shallow coalescing), as claimed: when the flush is about to run an active
\* watcher whose shallow flag is set, no update() call since the watcher's previous
\* run started had shallow false.
C27_AsClaimed ==
  \A w \in WatcherIds :
    (RunsNow(w) /\ watchers[w].active /\ watchers[w].shallow) => ~watchers[w].ns

\* _digest() is about to call update(true) on w.
DigestsNow(w) ==
  /\ stack # <<>> /\ Top.k = "digest" /\ Top.i <= Top.n
  /\ Top.i <= Len(vmWatchers) /\ vmWatchers[Top.i] = w

\* The step calls run() on w: from the flush, or from update() of a sync watcher.
RunCalled(w) ==
  \/ RunsNow(w)
  \/ (UpdatesNow(w) \/ DigestsNow(w)) /\ watchers[w].sync /\ ~watchers[w].lazy

\* Every update() call that led to this run() had shallow true.
ShallowTrigger(w) == IF RunsNow(w) THEN ~watchers[w].ns ELSE DigestsNow(w)

\* C28 (run() change test), as claimed: run() on an active watcher calls the
\* callback exactly when the new value is not === the stored one, or the trigger
\* was not shallow and the value is an object or the watcher is deep; the call has
\* the arguments (new, previous) and the new value is stored by then; run() on an
\* inactive watcher calls nothing and changes no value and no subscriber list.
C28_AsClaimed ==
  [][\A w \in WatcherIds :
       RunCalled(w) =>
         LET value == GetValue(Cur, w)
             changed == \/ ~StrictEq(value, watchers[w].value)
                        \/ ~ShallowTrigger(w) /\ (IsObject(value) \/ watchers[w].deep)
         IN IF watchers[w].active
            THEN /\ CbCalled(w) <=> changed
                 /\ CbCalled(w) => /\ Head(stack').nv = value
                                   /\ Head(stack').ov = watchers[w].value
                                   /\ watchers'[w].value = value
            ELSE /\ ~CbCalled(w)
                 /\ watchers'[w].value = watchers[w].value
                 /\ subs' = subs /\ val' = val]_vars

\* The calls of flushBatcherQueue still to come or under way: the entries of
\* callbacks, the copies nextTickHandler has not called yet, the calls on the stack.
Outstanding ==
  Cardinality({i \in 1 .. Len(callbacks) : callbacks[i] = "flushBatcherQueue"})
  + Cardinality({i \in 1 .. Len(stack) : stack[i].k = "flush"})
  + Cardinality({ji \in (1 .. Len(stack)) \X (1 .. MaxOps) :
                   /\ stack[ji[1]].k = "tick"
                   /\ ji[2] >= stack[ji[1]].i /\ ji[2] <= Len(stack[ji[1]].snap)})

\* C29 (single pending flush): at most one call of flushBatcherQueue is outstanding,
\* and waiting is set while it is; a step adds a callback only when none is
\* outstanding and waiting is false, and adds one; update() of a batched watcher
\* whose id is marked in has changes neither queue and schedules nothing.
C29_SinglePendingFlush ==
  /\ [](Outstanding <= 1 /\ (Outstanding = 1 => waiting))
  /\ [][/\ Len(callbacks') > Len(callbacks)
            => (Outstanding = 0 /\ ~waiting /\ Len(callbacks') = Len(callbacks) + 1)
        /\ \A w \in WatcherIds :
             (UpdatesNow(w) /\ ~watchers[w].sync /\ ~watchers[w].lazy /\ has[w] # Null)
               => (queue' = queue /\ userQueue' = userQueue /\ callbacks' = callbacks)]_vars

\* A flush is running, the watcher of the running callback has been pushed again
\* during it, and no callback was scheduled for that.
C29_Witness ==
  /\ InCb /\ has[Top.w] # Null /\ waiting
  /\ \E i \in 1 .. Len(stack) : stack[i].k = "flush"
  /\ callbacks = <<>>

\* The container property a held when w was last evaluated (from the history reads).
Seen(w) ==
  IF "x1" \in watchers[w].reads THEN Obj1
  ELSE IF "x2" \in watchers[w].reads THEN Obj2 ELSE ArrRef

\* The step calls notify() on a Dep that has w among its subscribers.
Triggered(w) ==
  /\ Len(stack') = Len(stack) + 1
  /\ Head(stack').k = "notify" /\ w \in SeqToSet(Head(stack').snap)

\* The Deps a watcher of this.a.x holds through container c.
Through(c) == IF c \in PlainObjects THEN {ObDep[c], XDep[c]} ELSE {ObDep[c]}

ObservedElements ==
  {items[i] : i \in 1 .. Len(items)} \cap {o \in Objects : obCount[o] > 0}

\* C31 (getter registration), as claimed: after an evaluation of an active watcher
\* w, for every property it read, w is a subscriber of the property's Dep, of the
\* Observer Dep of the value when the value is an observed container, and of the
\* Observer Dep of every observed element when the value is the array; a read
\* made by a script while no watcher is recording changes no subscriber list.
RegisteredAsClaimed(w) ==
  \A p \in watchers[w].reads \cap Props :
    /\ w \in SeqToSet(subs[p])
    /\ (IsObject(val[p]) /\ obCount[val[p]] > 0) => w \in SeqToSet(subs[ObDep[val[p]]])
    /\ val[p] = ArrRef => \A e \in ObservedElements : w \in SeqToSet(subs[ObDep[e]])

C31_AsClaimed ==
  [][/\ \A w \in WatcherIds :
          (RunCalled(w) /\ watchers[w].active) => RegisteredAsClaimed(w)'
     /\ (call' # <<>> /\ call'[1] = "read") => subs' = subs]_vars

\* C31 (getter registration): the same, with the Observer Dep of the value being
\* subscribed to when observe() returned an Observer to the property's setter (or
\* to defineReactive) for that value, which is what childOb holds.
Registered(w) ==
  \A p \in watchers[w].reads \cap Props :
    /\ w \in SeqToSet(subs[p])
    /\ childOb[p] => w \in SeqToSet(subs[ObDep[val[p]]])
    /\ val[p] = ArrRef => \A e \in ObservedElements : w \in SeqToSet(subs[ObDep[e]])

C31_GetterRegistration ==
  [][/\ \A w \in WatcherIds :
          (RunCalled(w) /\ watchers[w].active) => Registered(w)'
     /\ (call' # <<>> /\ call'[1] = "read") => subs' = subs]_vars

\* The property holds the observed array, the array an observed plain object, and
\* an active watcher that read the property is subscribed to the three Deps.
C31_Witness ==
  /\ val["a"] = ArrRef /\ childOb["a"] /\ stack = <<>>
  /\ \E w \in WatcherIds, e \in ObservedElements :
       /\ watchers[w].active /\ "a" \in watchers[w].reads
       /\ w \in SeqToSet(subs["a"]) \cap SeqToSet(subs["list"]) \cap SeqToSet(subs[ObDep[e]])

\* The containers reachable from container 1.
RECURSIVE ReachFrom(_)
ReachFrom(S) ==
  LET T == S \cup {m \in Nodes : \E n \in S : <<n, m>> \in trav.edges}
  IN IF T = S THEN S ELSE ReachFrom(T)

\* C32 (deep traversal terminates), as claimed: the traversal never runs out of
\* stack, a traversal that has returned has visited every reachable container, and
\* no observed container is visited twice.
C32_AsClaimed ==
  /\ trav.status # "overflow"
  /\ trav.status = "done" => \A n \in ReachFrom({1}) : trav.visits[n] >= 1
  /\ \A n \in Nodes : trav.observed[n] => trav.visits[n] <= 1

\* A set() of the directive is running, or the unlock callback of one has not run.
UnlockPending ==
  \/ \E i \in 1 .. Len(callbacks) : callbacks[i] = "unlock"
  \/ \E j \in 1 .. Len(stack) :
       \/ stack[j].k = "lock"
       \/ /\ stack[j].k = "tick"
          /\ \E i \in stack[j].i .. Len(stack[j].snap) : stack[j].snap[i] = "unlock"

\* C33 (directive lock), as claimed: whenever the callback of the directive's
\* watcher is called while a set() of the directive runs or its unlock callback is
\* still to run, the directive is locked, so that update() is not called.
C33_AsClaimed ==
  (InCb /\ watchers[Top.w].cbKind = "dir" /\ UnlockPending) => dir.locked

\* A _destroy of the instance has gone through its teardown.
TornDown == \E c \in 1 .. MaxDestroy : inst.closures[c].destroyReady

\* C34 (compile registers unlinking), as claimed: once _compile has linked an
\* element that is not v-pre, _unlinkFn is registered, the instance is marked
\* compiled and the 'compiled' hook has fired; and after a _destroy has torn the
\* instance down, every directive bound during the compilation is unbound and
\* its watcher is inactive.
C34_AsClaimed ==
  /\ inst.linked # {} =>
       /\ inst.unlinkFn /\ inst.isCompiled
       /\ \E i \in 1 .. Len(inst.hooks) : inst.hooks[i] = "compiled"
  /\ TornDown => \A d \in inst.linked : d \notin inst.bound /\ d \notin inst.active

\* The number of times the 'destroyed' hook has fired.
Destroyed(v) == Cardinality({i \in 1 .. Len(v.hooks) : v.hooks[i] = "destroyed"})

\* C35 (destroy ordering), as claimed: _cleanup and the 'destroyed' hook run at
\* most once, and when they run every watcher of the instance has been torn
\* down, no callback of a DOM removal is pending, and some _destroy call did not
\* ask for deferCleanup.
C35_AsClaimed ==
  [][inst'.cleanups > inst.cleanups =>
       /\ inst.cleanups = 0 /\ Destroyed(inst') = 1
       /\ inst'.active = {}
       /\ \A c \in 1 .. MaxDestroy : ~inst'.closures[c].pendingRemoval
       /\ inst'.undeferred]_vars

\* C36 (no stranded watcher), as claimed: whenever queue or userQueue holds a
\* watcher, or an id is marked in has, a call of flushBatcherQueue is pending in
\* nextTick or under way.
C36_AsClaimed ==
  (queue # <<>> \/ userQueue # <<>> \/ \E w \in WatcherIds : has[w] # Null)
    => Outstanding >= 1

\* C37 (user watchers see settled internal state), as claimed: when the flush is
\* about to run an active user watcher, no internal watcher is waiting in queue.
C37_AsClaimed ==
  \A u \in WatcherIds :
    (RunsNow(u) /\ watchers[u].user /\ watchers[u].active) =>
      \A w \in SeqToSet(queue) : watchers[w].user \/ has[w] = Null

\* The value of the computed property c is the value of its getter on the state.
Fresh ==
  watchers[LazyId].dirty \/ watchers[LazyId].value = GetterValue("cond", val)

\* C38 (no stale computed value), as claimed: whenever a watcher that reads the
\* computed property c is re-evaluated, inline by update() when it is sync or by
\* the flush, the lazy watcher behind c is dirty (or holds the value of its getter
\* on the current state), so the re-evaluation obtains the recomputed value.
C38_AsClaimed ==
  \A w \in WatcherIds \ {LazyId} :
    (/\ watchers[w].active /\ watchers[w].getter \in {"sum", "bsum"}
     /\ RunsNow(w) \/ (UpdatesNow(w) /\ watchers[w].sync))
      => Fresh

\* The entries met from entry e on by following newer, at most n of them.
RECURSIVE Chain(_, _, _)
Chain(c, e, n) ==
  IF e = Undefined \/ n = 0 THEN <<>> ELSE <<e>> \o Chain(c, c.newer[e], n - 1)

\* C39 (cache well-formedness), as claimed: size never exceeds limit and is the
\* number of keys that have an entry; the walk from head along newer visits
\* exactly those entries, each once, and ends at tail; head and tail are
\* undefined exactly when size is 0.
C39_AsClaimed ==
  LET walk == Chain(cache, cache.head, MaxKeys + 1)
  IN /\ cache.size <= cache.limit
     /\ cache.size = Cardinality(CacheContents(cache))
     /\ Len(walk) = cache.size
     /\ SeqToSet(walk) = CacheContents(cache)
     /\ walk # <<>> => walk[Len(walk)] = cache.tail
     /\ (cache.head = Undefined) = (cache.size = 0)
     /\ (cache.tail = Undefined) = (cache.size = 0)

\* C40 (recorder cleared at rest), as claimed: whenever no code is running,
\* Dep.target is null, and a read of a property made then subscribes no watcher
\* and changes no watcher.
C40_AsClaimed ==
  /\ [](stack = <<>> => target = Null)
  /\ [][(stack = <<>> /\ call' # <<>> /\ call'[1] = "read")
         => (subs' = subs /\ watchers' = watchers)]_vars

====
